---- MODULE Spec2Model ----
(***************************************************************************)
(* A model of the Android-log NMEA parsers of python_osm:                  *)
(*   parse_android_logs_for_coordinates  (src/convert_logs_to_kml.py)      *)
(*   parse_android_log_speed_data        (src/speed_analyser.py)           *)
(*   parse_android_log_satellite_data    (src/satellite_analyzer.py)       *)
(* Each parser is a sequential fold over log lines.  One step of the model *)
(* is either the per-line prologue of the loop body (sentence extraction,  *)
(* raw-marker test, timestamp resolution, gap check) or one iteration of   *)
(* the inner "for nmea_sentence in nmea_matches" loop; pc is the position  *)
(* of the parser in that loop nest.                                        *)
(*                                                                         *)
(* Units.  Datetimes are integers counting tenths of a second since        *)
(* 2025-01-01 00:00 (the line grammars carry milliseconds; the lines of    *)
(* the model use multiples of 100 ms).  Coordinates are integers counting  *)
(* 1/600000 degree, which is exactly one 1e-4 arc minute, so that          *)
(* deg + min/60 is computed without rounding.  An optional value (Python   *)
(* None) is the empty tuple and a present value v is <<v>>.                *)
(***************************************************************************)
EXTENDS Integers, Sequences, FiniteSets, TLC

VARIABLES
    mode,                  \* which parser runs: "coordinates", "speed", "satellites"
    filter_date,           \* argument filter_date (optional date)
    include_raw,           \* argument include_raw
    pc,                    \* "line": at the top of the line loop; "sentence": in the sentence loop; "done": returned
    nlines,                \* number of lines read so far
    script,                \* the lines still to come when the input is a fixed scenario
    stamp_form,            \* the timestamp grammar the text of the current line shows
    clock,                 \* the wall clock read by datetime.now()
    log_file,              \* the loop variable of the file loop: the rank of the file being read
    line,                  \* the loop variable of the line loop: the line read last (optional)
    nmea_matches,          \* sentences of the current line still to be processed
    nmea_sentence,         \* the loop variable of the sentence loop: the sentence handled last (optional)
    is_raw_message,
    log_timestamp,         \* the current line's timestamp (optional)
    current_date,
    current_lat, current_lon, current_alt, current_speed, current_course,
    last_valid_timestamp, last_raw_timestamp,
    current_track, current_raw_track, all_tracks,
    current_bearing, current_sats_view, current_sats_use,
    timestamps, speeds_kmh, bearings, coordinates,
    satellites_in_view, satellites_in_use,
    outcome,               \* what the last record decision did: "none", "recorded", "dropped"
    accepted,              \* history: the Samples accepted so far, per stream
    run,                   \* "single": one call; "first"/"second": the call and its repetition without raw lines
    history,               \* the lines without raw marker read by the first call
    first_tracks,          \* what the first call returned
    min_speed,             \* argument min_speed of trim_low_speed_points (optional)
    bearing_accuracy       \* what calculate_bearing_accuracy returned (optional)

\* the arguments and the position in the input
ctlVars == <<mode, filter_date, include_raw>>
\* locals of parse_android_logs_for_coordinates only
coordVars == <<current_alt, current_course, last_valid_timestamp, last_raw_timestamp,
               current_track, current_raw_track, all_tracks, accepted>>
\* locals of parse_android_log_speed_data and parse_android_log_satellite_data only
listVars == <<timestamps, coordinates>>
speedVars == <<current_bearing, speeds_kmh, bearings>>
satVars == <<current_sats_view, current_sats_use, satellites_in_view, satellites_in_use>>
\* the repetition of a call of parse_android_logs_for_coordinates
rerunVars == <<run, history, first_tracks>>
\* what main() of speed_analyser.py does with the parser's lists
analysisVars == <<min_speed, bearing_accuracy>>

vars == <<mode, filter_date, include_raw, pc, nlines, script, stamp_form, clock, log_file, line,
          nmea_matches,
          nmea_sentence,
          is_raw_message, log_timestamp, current_date, current_lat, current_lon,
          current_alt, current_speed, current_course, last_valid_timestamp,
          last_raw_timestamp, current_track, current_raw_track, all_tracks,
          current_bearing, current_sats_view, current_sats_use,
          timestamps, speeds_kmh, bearings, coordinates,
          satellites_in_view, satellites_in_use, outcome, accepted,
          run, history, first_tracks, min_speed, bearing_accuracy>>

\* Python None and present values
None == <<>>
Some(v) == <<v>>
Val(o) == o[1]
OrZero(o) == IF o = None THEN 0 ELSE Val(o)
Abs(x) == IF x < 0 THEN 0 - x ELSE x
Last(s) == s[Len(s)]

-----------------------------------------------------------------------------
(* datetime.date and datetime.datetime                                     *)

Date(y, m, d) == [year |-> y, month |-> m, day |-> d]

IsLeap(y) == (y % 4 = 0 /\ y % 100 # 0) \/ y % 400 = 0

DaysInMonth(y, m) ==
    IF m = 2 THEN (IF IsLeap(y) THEN 29 ELSE 28)
    ELSE IF m \in {4, 6, 9, 11} THEN 30 ELSE 31

\* date(y, m, d) and date.replace(month=m, day=d) raise ValueError otherwise
ValidDate(y, m, d) ==
    /\ y \in 1..9999
    /\ m \in 1..12
    /\ d >= 1 /\ d <= DaysInMonth(y, m)

\* time.replace(hour=, minute=, second=, microsecond=) raises ValueError otherwise
ValidTime(h, mi, s) == h \in 0..23 /\ mi \in 0..59 /\ s \in 0..59

RECURSIVE DaysBeforeMonth(_, _)
DaysBeforeMonth(y, m) ==
    IF m <= 1 THEN 0 ELSE DaysBeforeMonth(y, m - 1) + DaysInMonth(y, m - 1)

DaysBeforeYear(y) ==
    (y - 1) * 365 + ((y - 1) \div 4) - ((y - 1) \div 100) + ((y - 1) \div 400)

toordinal(d) == DaysBeforeYear(d.year) + DaysBeforeMonth(d.year, d.month) + d.day

\* datetime.combine(d, time) as tenths of a second since 2025-01-01 00:00
Datetime(d, tod) == (toordinal(d) - toordinal(Date(2025, 1, 1))) * 864000 + tod

TimeOfDay(h, mi, s, ms) == ((h * 60 + mi) * 60 + s) * 10 + (ms \div 100)

\* datetime.date() as an ordinal, for the comparison with filter_date
DateOf(ts) == (ts \div 864000) + toordinal(Date(2025, 1, 1))

\* (a - b).total_seconds() > secs
SecondsExceed(a, b, secs) == a - b > secs * 10
-----------------------------------------------------------------------------
(* The text of a log line                                                  *)
(*                                                                         *)
(* A comma-separated field of a sentence is a record: k is "int" for a     *)
(* text of digits (int() and float() parse it), "dec" for a decimal number *)
(* (float() parses it, int() raises ValueError), "txt" for any other text  *)
(* (both raise ValueError); s is the text where the code compares it; v is *)
(* the number written; len is len() of the text.                           *)

Empty == [k |-> "txt", s |-> "", v |-> 0, len |-> 0]
Txt(s) == [k |-> "txt", s |-> s, v |-> 0, len |-> 1]
Digits(v, n) == [k |-> "int", s |-> "", v |-> v, len |-> n]
Dec(v) == [k |-> "dec", s |-> "", v |-> v, len |-> 1]

IsFloat(f) == f.k \in {"int", "dec"}      \* float(f) does not raise
IsInt(f) == f.k = "int"                    \* int(f) does not raise

\* A sentence is its type ("$G[PN]" + type is parts[0] in the code) and the
\* fields after the tag: parts[i] here is parts[i] of nmea_sentence.split(',').
Sentence(type, parts) == [type |-> type, parts |-> parts]

\* $GPGGA,time,lat,N/S,lon,E/W,quality,sats,hdop,alt,M
\* latitudes and longitudes are written DDMM.MMMM and counted in 1e-4 minutes
GGA(lat, latdir, lon, londir, quality, sats, alt) ==
    Sentence("GGA", <<Dec(1000000), lat, latdir, lon, londir, quality, sats,
                      Dec(9), alt, Txt("M")>>)

\* $GPRMC,time,status,lat,N/S,lon,E/W,knots,course,date,...
\* knots are counted in 0.01 kn, the course in 0.1 degree
RMC(status, knots, course, datestr) ==
    Sentence("RMC", <<Dec(1000000), status, Dec(48070380), Txt("N"), Dec(11310000),
                      Txt("E"), knots, course, datestr, Empty>>)

\* The timestamp text of a line: form is the richest grammar the text shows,
\*   "full"  YYYY-MM-DD HH:MM:SS.mmm     "mmdd"  MM-DD HH:MM:SS.mmm
\*   "bare"  HH:MM:SS.mmm                "none"  no such text
StampText(form, y, mo, d, h, mi, s, ms) ==
    [form |-> form, year |-> y, month |-> mo, day |-> d,
     hour |-> h, minute |-> mi, second |-> s, millis |-> ms]

NoStamp == StampText("none", 0, 0, 0, 0, 0, 0, 0)
Bare(h, mi, s, ms) == StampText("bare", 0, 0, 0, h, mi, s, ms)
MonthDay(mo, d, h, mi, s, ms) == StampText("mmdd", 0, mo, d, h, mi, s, ms)
Full(y, mo, d, h, mi, s, ms) == StampText("full", y, mo, d, h, mi, s, ms)

\* A log line: whether it contains the marker 's:1*78', its timestamp text and
\* the NMEA sentences written in it, in order.
Line(raw, stamp, sents) == [raw |-> raw, stamp |-> stamp, sents |-> sents]

\* timestamp_patterns[i].search(line) finds a match
PatternMatches(i, stamp) ==
    CASE i = 1 -> stamp.form \in {"mmdd", "full"}
      [] i = 2 -> stamp.form = "full"
      [] i = 3 -> stamp.form \in {"mmdd", "full", "bare"}

\* mutant: a pattern that matches but does not parse ends the loop (break)
ResolveTimestamp_no_fallthrough(stamp, cur_date) ==
    LET tod == TimeOfDay(stamp.hour, stamp.minute, stamp.second, stamp.millis)
        timeOk == ValidTime(stamp.hour, stamp.minute, stamp.second)
    IN  IF PatternMatches(1, stamp)
        THEN (IF timeOk /\ ValidDate(cur_date.year, stamp.month, stamp.day)
              THEN Some(Datetime(Date(cur_date.year, stamp.month, stamp.day), tod))
              ELSE None)
        ELSE IF PatternMatches(2, stamp)
        THEN (IF timeOk /\ ValidDate(stamp.year, stamp.month, stamp.day)
              THEN Some(Datetime(Date(stamp.year, stamp.month, stamp.day), tod))
              ELSE None)
        ELSE IF PatternMatches(3, stamp) /\ timeOk
        THEN Some(Datetime(cur_date, tod))
        ELSE None

\* The loop over timestamp_patterns: the first pattern that matches and whose
\* groups parse gives log_timestamp; a ValueError goes on to the next pattern.
ResolveTimestamp(stamp, cur_date) ==
    LET tod == TimeOfDay(stamp.hour, stamp.minute, stamp.second, stamp.millis)
        timeOk == ValidTime(stamp.hour, stamp.minute, stamp.second)
    IN  IF PatternMatches(1, stamp) /\ timeOk
           /\ ValidDate(cur_date.year, stamp.month, stamp.day)
        THEN Some(Datetime(Date(cur_date.year, stamp.month, stamp.day), tod))
        ELSE IF PatternMatches(2, stamp) /\ timeOk
                /\ ValidDate(stamp.year, stamp.month, stamp.day)
        THEN Some(Datetime(Date(stamp.year, stamp.month, stamp.day), tod))
        ELSE IF PatternMatches(3, stamp) /\ timeOk
        THEN Some(Datetime(cur_date, tod))
        ELSE None
-----------------------------------------------------------------------------
(* Sentence extraction                                                     *)

\* The text of a field that runs into the next sentence of the line ("M$GPRMC")
Glued(f) == [k |-> "txt", s |-> "$", v |-> 0, len |-> f.len + 6]

RECURSIVE GluedParts(_)
GluedParts(sents) ==
    IF Len(sents) = 1 THEN sents[1].parts
    ELSE LET p == sents[1].parts
         IN  IF p = <<>> THEN GluedParts(Tail(sents))
             ELSE SubSeq(p, 1, Len(p) - 1) \o <<Glued(Last(p))>> \o GluedParts(Tail(sents))

\* re.compile(r'\$G[PN][A-Z]{3}[^\r\n]*').findall(line): the match runs to the end of
\* the line, so a line gives at most one match, which holds every later sentence.
findall_to_eol(l) ==
    IF l.sents = <<>> THEN <<>>
    ELSE <<Sentence(l.sents[1].type, GluedParts(l.sents))>>

\* re.compile(r'\$G[NP][A-Z]{3}[^$\r\n]*(?:\*[0-9A-F]{2})?').findall(line): a match
\* stops before the next '$', so every sentence of the line is a match.
findall_to_dollar(l) == l.sents

-----------------------------------------------------------------------------
(* parse_android_logs_for_coordinates                                      *)

TRACK_GAP_THRESHOLD == 600

\* the conversion without the negation for the hemisphere
DecimalDegrees_unsigned(v, negate) == (v \div 1000000) * 600000 + (v % 1000000)

\* DDMM.MMMM (in 1e-4 minutes) to decimal degrees (in 1/600000 degree):
\* int(float(x) // 100) + (float(x) % 100) / 60.0, negated for the hemisphere
DecimalDegrees(v, negate) ==
    LET deg == v \div 1000000
        min == v % 1000000
        dd == deg * 600000 + min
    IN  IF negate THEN 0 - dd ELSE dd

\* The GGA branch.  fix is [lat, lon, alt]; the result adds skip, TRUE when the
\* branch left the loop iteration (continue, or an exception caught by the
\* iteration's "except Exception: continue") before the record step.
gga_coordinates(parts, fix) ==
    LET lat_str == parts[2]
        lat_dir == parts[3]
        lon_str == parts[4]
        lon_dir == parts[5]
        quality == parts[6]
        altitude_str == parts[9]
        same == [lat |-> fix.lat, lon |-> fix.lon, alt |-> fix.alt, skip |-> FALSE]
        newLat == Some(DecimalDegrees(lat_str.v, lat_dir = Txt("S")))
        newLon == Some(DecimalDegrees(lon_str.v, lon_dir = Txt("W")))
    IN  IF Len(parts) + 1 < 10 THEN same
        ELSE IF quality = Empty THEN same
        ELSE IF ~IsInt(quality) THEN [same EXCEPT !.skip = TRUE]
        ELSE IF ~(quality.v > 0) THEN same
        ELSE IF lat_str = Empty \/ lon_str = Empty \/ lat_dir = Empty \/ lon_dir = Empty
        THEN same
        ELSE IF ~IsFloat(lat_str) THEN [same EXCEPT !.skip = TRUE]
        ELSE IF ~IsFloat(lon_str) THEN [same EXCEPT !.lat = newLat, !.skip = TRUE]
        ELSE IF altitude_str = Empty THEN [same EXCEPT !.lat = newLat, !.lon = newLon]
        ELSE IF ~IsFloat(altitude_str)
        THEN [same EXCEPT !.lat = newLat, !.lon = newLon, !.skip = TRUE]
        ELSE [same EXCEPT !.lat = newLat, !.lon = newLon, !.alt = Some(altitude_str.v)]

\* The date field of RMC: DDMMYY, year 2000 + YY; None when it gives no date
rmc_date(date_str) ==
    LET day == date_str.v \div 10000
        month == (date_str.v \div 100) % 100
        year == 2000 + (date_str.v % 100)
    IN  IF date_str # Empty /\ date_str.len = 6 /\ IsInt(date_str)
           /\ ValidDate(year, month, day)
        THEN Some(Date(year, month, day))
        ELSE None

\* the RMC branch without the test of the status field
rmc_coordinates_any_status(parts, st) ==
    LET speed_knots == parts[7]
        course_str == parts[8]
        date_str == parts[9]
    IN  IF Len(parts) + 1 >= 10
        THEN [speed |-> IF speed_knots # Empty /\ IsFloat(speed_knots)
                        THEN Some(speed_knots.v * 1852) ELSE st.speed,
              course |-> IF course_str # Empty /\ IsFloat(course_str)
                         THEN Some(course_str.v) ELSE st.course,
              date |-> IF rmc_date(date_str) # None
                       THEN Val(rmc_date(date_str)) ELSE st.date]
        ELSE st

\* The RMC branch.  st is [speed, course, date]; speed in 1e-5 km/h.
rmc_coordinates(parts, st) ==
    LET status == parts[2]
        speed_knots == parts[7]
        course_str == parts[8]
        date_str == parts[9]
    IN  IF Len(parts) + 1 >= 10 /\ status = Txt("A")
        THEN [speed |-> IF speed_knots # Empty /\ IsFloat(speed_knots)
                        THEN Some(speed_knots.v * 1852) ELSE st.speed,
              course |-> IF course_str # Empty /\ IsFloat(course_str)
                         THEN Some(course_str.v) ELSE st.course,
              date |-> IF rmc_date(date_str) # None
                       THEN Val(rmc_date(date_str)) ELSE st.date]
        ELSE st

\* mutant: the difference is taken the wrong way round
GapExceeded_reversed(ts, last) ==
    /\ ts # None
    /\ last # None
    /\ SecondsExceed(Val(last), Val(ts), TRACK_GAP_THRESHOLD)

\* The time-gap test of one stream
GapExceeded(ts, last) ==
    /\ ts # None
    /\ last # None
    /\ SecondsExceed(Val(ts), Val(last), TRACK_GAP_THRESHOLD)

\* mutant: the closed track is reset without being appended to all_tracks
Finalized_lost(tracks, track) == tracks

\* mutant: the closed track is appended even when it holds no Sample
Finalized_always(tracks, track) == Append(tracks, track)

\* finalize_current_track / finalize_raw_track: the tracks list after closing track
Finalized(tracks, track) == IF track # <<>> THEN Append(tracks, track) ELSE tracks

\* "Only add if we have new coordinates or significant time difference"
IsNewSample(track, ts, lat, lon) ==
    \/ track = <<>>
    \/ Abs(ts - Last(track).timestamp) > 10
    \/ Abs(lat - Last(track).lat) > 60
    \/ Abs(lon - Last(track).lon) > 60

\* mutant: the timestamp is stored outside the "if" that appends
CursorAfter_always(recorded, ts, last) == Some(ts)

\* The stream's last timestamp after the record decision
CursorAfter(recorded, ts, last) == IF recorded THEN Some(ts) ELSE last

\* mutant: the test of include_raw is lost
SkipRaw_never(raw, incl) == FALSE

\* "Skip raw messages if not requested"
SkipRaw(raw, incl) == raw /\ ~incl

\* mutant: the gap test of every line is made on the primary stream
GapStream_primary(raw) == "primary"

\* "Check for time gap to create new track (separate logic for each stream)"
GapStream(raw) == IF raw THEN "raw" ELSE "primary"

\* mutant: every Sample goes to the regular track
RecordStream_primary(raw) == "primary"

\* "Handle raw coordinates track" / "Handle regular track"
RecordStream(raw) == IF raw THEN "raw" ELSE "primary"

\* mutant: the date filter is lost
IsCandidate_unfiltered(skip, ts, lat, lon, fdate) ==
    /\ ~skip
    /\ ts # None /\ lat # None /\ lon # None

\* The record step may run: timestamp and coordinates known, date filter passed
IsCandidate(skip, ts, lat, lon, fdate) ==
    /\ ~skip
    /\ ts # None /\ lat # None /\ lon # None
    /\ (fdate = None \/ DateOf(Val(ts)) = toordinal(Val(fdate)))

-----------------------------------------------------------------------------
(* parse_android_log_speed_data                                            *)

\* mutant: a timestamp equal to the last one is repaired too (> for >=)
validate_strictly_after(ts, stamps) ==
    IF stamps = <<>> THEN ts
    ELSE IF ts > Last(stamps) THEN ts
    ELSE IF Len(stamps) >= 2
    THEN Last(stamps) + (Last(stamps) - stamps[Len(stamps) - 1])
    ELSE Last(stamps) + 10

\* mutant: no repair at all
validate_nothing(ts, stamps) == ts

\* validate_and_fix_timestamp(log_timestamp, timestamps, line_num, log_file)
validate_and_fix_timestamp(ts, stamps) ==
    IF stamps = <<>> THEN ts
    ELSE IF ts >= Last(stamps) THEN ts
    ELSE IF Len(stamps) >= 2
    THEN Last(stamps) + (Last(stamps) - stamps[Len(stamps) - 1])
    ELSE Last(stamps) + 10

\* The VTG branch.  st is [speed, bearing]; km/h fields are counted in 0.001 km/h,
\* knots in 0.01 kn, speeds in 1e-5 km/h, courses in 0.1 degree.
vtg_speed(parts, st) ==
    LET course_true_str == parts[1]
        speed_kmh_str == parts[7]
        speed_knots_str == parts[5]
    IN  IF Len(parts) + 1 >= 8
        THEN [bearing |-> IF course_true_str # Empty /\ IsFloat(course_true_str)
                          THEN Some(course_true_str.v) ELSE st.bearing,
              speed |-> IF speed_kmh_str # Empty /\ speed_kmh_str.s # "0.000"
                        THEN (IF IsFloat(speed_kmh_str)
                              THEN Some(speed_kmh_str.v * 100) ELSE st.speed)
                        ELSE IF speed_knots_str # Empty /\ speed_knots_str.s # "0.000"
                        THEN (IF IsFloat(speed_knots_str)
                              THEN Some(speed_knots_str.v * 1852) ELSE st.speed)
                        ELSE st.speed]
        ELSE st

\* The RMC branch: speed and bearing only where VTG has given none
rmc_speed(parts, st) ==
    LET status == parts[2]
        speed_knots_str == parts[7]
        course_str == parts[8]
    IN  IF Len(parts) + 1 >= 9 /\ status = Txt("A")
        THEN [bearing |-> IF course_str # Empty /\ st.bearing = None /\ IsFloat(course_str)
                          THEN Some(course_str.v) ELSE st.bearing,
              speed |-> IF speed_knots_str # Empty /\ st.speed = None /\ IsFloat(speed_knots_str)
                        THEN Some(speed_knots_str.v * 1852) ELSE st.speed]
        ELSE st

\* The GGA branch.  fix is [lat, lon]; skip is TRUE when parts[6] raises IndexError
\* or int(quality) raises ValueError (caught by "except Exception: continue").
gga_speed(parts, fix) ==
    LET lat_str == parts[2]
        lat_dir == parts[3]
        lon_str == parts[4]
        lon_dir == parts[5]
        quality == parts[6]
        same == [lat |-> fix.lat, lon |-> fix.lon, skip |-> FALSE]
        newLat == Some(DecimalDegrees(lat_str.v, lat_dir = Txt("S")))
        newLon == Some(DecimalDegrees(lon_str.v, lon_dir = Txt("W")))
    IN  IF Len(parts) + 1 < 6 THEN same
        ELSE IF Len(parts) + 1 = 6 THEN [same EXCEPT !.skip = TRUE]
        ELSE IF quality = Empty THEN same
        ELSE IF ~IsInt(quality) THEN [same EXCEPT !.skip = TRUE]
        ELSE IF ~(quality.v > 0) THEN same
        ELSE IF lat_str = Empty \/ lon_str = Empty \/ lat_dir = Empty \/ lon_dir = Empty
        THEN same
        ELSE IF ~IsFloat(lat_str) THEN same
        ELSE IF ~IsFloat(lon_str) THEN [same EXCEPT !.lat = newLat]
        ELSE [same EXCEPT !.lat = newLat, !.lon = newLon]

\* "Only add if we have new data or significant time difference"
IsNewRecord(stamps, ts) == stamps = <<>> \/ Abs(ts - Last(stamps)) > 10

\* mutant: a record without a position gets the origin
LonLat_origin(lat, lon) == IF lat # None /\ lon # None THEN Some(<<Val(lon), Val(lat)>>) ELSE Some(<<0, 0>>)

\* coordinates.append((current_lon, current_lat)) or coordinates.append(None)
LonLat(lat, lon) == IF lat # None /\ lon # None THEN Some(<<Val(lon), Val(lat)>>) ELSE None

-----------------------------------------------------------------------------
(* trim_low_speed_points and calculate_bearing_accuracy                    *)

\* "Find first index with speed >= min_speed": the while loop from start_index i
\* (indices count from 0 as in the code; speeds[i + 1] is speeds_kmh[i])
RECURSIVE start_index_from(_, _, _)
start_index_from(i, speeds, min) ==
    IF i < Len(speeds) /\ speeds[i + 1] < min
    THEN start_index_from(i + 1, speeds, min) ELSE i

\* "Find last index with speed >= min_speed": the while loop from end_index i
RECURSIVE end_index_from(_, _, _)
end_index_from(i, speeds, min) ==
    IF i >= 0 /\ speeds[i + 1] < min
    THEN end_index_from(i - 1, speeds, min) ELSE i

\* the slice list[a:b+1] for 0 <= a <= b
Slice(list, a, b) ==
    SubSeq(list, a + 1, IF b + 1 < Len(list) THEN b + 1 ELSE Len(list))

\* mutant: only the points at the start are trimmed
trim_start_only(stamps, speeds, coords, bears, min) ==
    IF stamps = <<>> \/ speeds = <<>> THEN <<stamps, speeds, coords, bears>>
    ELSE LET start_index == start_index_from(0, speeds, min)
             end_index == Len(speeds) - 1
         IN  IF start_index > end_index THEN << <<>>, <<>>, <<>>, <<>> >>
             ELSE << Slice(stamps, start_index, end_index),
                     Slice(speeds, start_index, end_index),
                     Slice(coords, start_index, end_index),
                     Slice(bears, start_index, end_index) >>

\* mutant: the first point that reaches the threshold is trimmed too
trim_past_first(stamps, speeds, coords, bears, min) ==
    IF stamps = <<>> \/ speeds = <<>> THEN <<stamps, speeds, coords, bears>>
    ELSE LET start_index == start_index_from(0, speeds, min) + 1
             end_index == end_index_from(Len(speeds) - 1, speeds, min)
         IN  IF start_index > end_index THEN << <<>>, <<>>, <<>>, <<>> >>
             ELSE << Slice(stamps, start_index, end_index),
                     Slice(speeds, start_index, end_index),
                     Slice(coords, start_index, end_index),
                     Slice(bears, start_index, end_index) >>

\* trim_low_speed_points(timestamps, speeds_kmh, coordinates, bearings, min_speed):
\* the four lists it returns
trim_low_speed_points(stamps, speeds, coords, bears, min) ==
    IF stamps = <<>> \/ speeds = <<>> THEN <<stamps, speeds, coords, bears>>
    ELSE LET start_index == start_index_from(0, speeds, min)
             end_index == end_index_from(Len(speeds) - 1, speeds, min)
         IN  IF start_index > end_index THEN << <<>>, <<>>, <<>>, <<>> >>
             ELSE << Slice(stamps, start_index, end_index),
                     Slice(speeds, start_index, end_index),
                     Slice(coords, start_index, end_index),
                     Slice(bears, start_index, end_index) >>

\* The great circle bearing from c1 to c2, "(degrees(arctan2(y, x)) + 360) % 360",
\* in 0.1 degree, for the points of the model: the origin, the point 1 degree
\* north of it and the point 1 degree east of it (c is <<lon, lat>> in 1/600000
\* degree).  Between the last two the formula gives 134.9956 and 315.0044 degrees.
calculated_bearing(c1, c2) ==
    LET dlon == c2[1] - c1[1]
        dlat == c2[2] - c1[2]
    IN  IF dlon = 0 THEN (IF dlat >= 0 THEN 0 ELSE 1800)
        ELSE IF dlat = 0 THEN (IF dlon > 0 THEN 900 ELSE 2700)
        ELSE IF dlon > 0 THEN 1350 ELSE 3150

\* "Calculate the difference (shortest angular distance)", in 0.1 degree
bearing_difference(calculated, nmea_bearing) ==
    LET diff == Abs(calculated - nmea_bearing)
    IN  IF diff > 1800 THEN 3600 - diff ELSE diff

\* mutant: a bearing of zero is compared like any other
bearing_reported_any(nmea_bearing) == nmea_bearing # None

\* "if nmea_bearing is not None and nmea_bearing > 0"
bearing_reported(nmea_bearing) == nmea_bearing # None /\ Val(nmea_bearing) > 0

\* calculate_bearing_accuracy(coordinates, bearings): entry k of the result is the
\* code's iteration i = k of "for i in range(1, len(coordinates))", which reads
\* coordinates[i - 1], coordinates[i] and bearings[i] (here at k, k + 1, k + 1)
calculate_bearing_accuracy(coords, bears) ==
    IF Len(coords) < 2 \/ Len(bears) < 2 THEN <<>>
    ELSE [k \in 1..(Len(coords) - 1) |->
             IF coords[k + 1] = None \/ coords[k] = None THEN None
             ELSE IF bearing_reported(bears[k + 1])
             THEN Some(bearing_difference(
                          calculated_bearing(Val(coords[k]), Val(coords[k + 1])),
                          Val(bears[k + 1])))
             ELSE None]

-----------------------------------------------------------------------------
(* parse_android_log_satellite_data                                        *)

\* The GGA branch.  st is [lat, lon, use]
gga_satellites(parts, st) ==
    LET lat_str == parts[2]
        lat_dir == parts[3]
        lon_str == parts[4]
        lon_dir == parts[5]
        sats_used == parts[7]
        newLat == Some(DecimalDegrees(lat_str.v, lat_dir = Txt("S")))
        newLon == Some(DecimalDegrees(lon_str.v, lon_dir = Txt("W")))
        coordsGiven == lat_str # Empty /\ lon_str # Empty /\ lat_dir # Empty /\ lon_dir # Empty
    IN  IF Len(parts) + 1 >= 8
        THEN [lat |-> IF coordsGiven /\ IsFloat(lat_str) THEN newLat ELSE st.lat,
              lon |-> IF coordsGiven /\ IsFloat(lat_str) /\ IsFloat(lon_str)
                      THEN newLon ELSE st.lon,
              use |-> IF sats_used # Empty /\ IsInt(sats_used)
                      THEN Some(sats_used.v) ELSE st.use]
        ELSE st

\* the GSV branch without the test of the message index
gsv_satellites_any_index(parts, view) ==
    LET sats_in_view == parts[3]
    IN  IF Len(parts) + 1 >= 4 /\ sats_in_view # Empty /\ IsInt(sats_in_view)
        THEN Some(sats_in_view.v)
        ELSE view

\* The GSV branch: the satellites-in-view count after the sentence
gsv_satellites(parts, view) ==
    LET msg_num == parts[2]
        sats_in_view == parts[3]
    IN  IF Len(parts) + 1 >= 4
           /\ IsInt(msg_num) /\ msg_num.v = 1 /\ msg_num.len = 1
           /\ sats_in_view # Empty /\ IsInt(sats_in_view)
        THEN Some(sats_in_view.v)
        ELSE view

\* "Use last known values if current ones are None"
LastKnown(cur, list) == IF cur # None THEN Val(cur) ELSE IF list # <<>> THEN Last(list) ELSE 0

-----------------------------------------------------------------------------
(* The input                                                               *)

MaxLines == 3

\* fixes A, B (latitude 2e-4 degree off A), C (longitude 2e-4 degree off A),
\* N (5e-5 degree off A both ways), with quality 1
GGA_A == GGA(Dec(48070380), Txt("N"), Dec(11310000), Txt("E"), Digits(1, 1), Digits(8, 2), Dec(5454))
GGA_B == GGA(Dec(48070500), Txt("N"), Dec(11310000), Txt("E"), Digits(1, 1), Digits(8, 2), Dec(5454))
GGA_C == GGA(Dec(48070380), Txt("N"), Dec(11310120), Txt("E"), Digits(1, 1), Digits(8, 2), Empty)
GGA_N == GGA(Dec(48070410), Txt("N"), Dec(11310030), Txt("E"), Digits(1, 1), Digits(8, 2), Dec(5454))
\* a fix whose longitude does not parse
GGA_BadLon == GGA(Dec(48070500), Txt("N"), Txt("x"), Txt("E"), Digits(1, 1), Digits(8, 2), Dec(5454))
\* the coordinates of B with fix quality 0 and with an empty fix quality
GGA_Q0 == GGA(Dec(48070500), Txt("N"), Dec(11310000), Txt("E"), Digits(0, 1), Digits(8, 2), Dec(5454))
GGA_QE == GGA(Dec(48070500), Txt("N"), Dec(11310000), Txt("E"), Empty, Digits(8, 2), Dec(5454))
\* malformed sentences: a fix quality that is no number, and too few fields
GGA_QX == GGA(Dec(48070500), Txt("N"), Dec(11310000), Txt("E"), Txt("x"), Digits(8, 2), Dec(5454))
GGA_Short == Sentence("GGA", <<Dec(1000000), Dec(48070500), Txt("N")>>)
\* valid RMC sentences, 10.00 kn, course 90.0, dated 13 and 14 January 2026
RMC_13 == RMC(Txt("A"), Dec(1000), Dec(900), Digits(130126, 6))
RMC_14 == RMC(Txt("A"), Dec(1000), Dec(900), Digits(140126, 6))
\* a void RMC sentence (status V), 20.00 kn, course 45.0, dated 15 January 2026
RMC_V == RMC(Txt("V"), Dec(2000), Dec(450), Digits(150126, 6))
\* a fix in the southern and western hemispheres: 3351.2340,S,15112.3450,W
GGA_SW == GGA(Dec(33512340), Txt("S"), Dec(151123450), Txt("W"), Digits(1, 1), Digits(8, 2), Dec(5454))

CoordLines ==
    { Line(FALSE, Bare(10, 0, 0, 0), <<GGA_A>>),
      Line(FALSE, Bare(10, 0, 0, 500), <<GGA_A>>),
      Line(FALSE, Bare(10, 0, 2, 0), <<GGA_A>>),
      Line(FALSE, Bare(10, 11, 0, 0), <<GGA_A>>),
      Line(FALSE, Bare(10, 0, 0, 0), <<GGA_B>>),
      Line(FALSE, Bare(10, 0, 0, 500), <<GGA_C>>),
      Line(FALSE, Bare(10, 0, 0, 500), <<GGA_N>>),
      Line(FALSE, Bare(10, 11, 0, 0), <<GGA_BadLon>>),
      Line(FALSE, Bare(10, 0, 2, 0), <<GGA_Q0>>),
      Line(FALSE, Bare(10, 0, 2, 0), <<GGA_QE>>),
      Line(FALSE, NoStamp, <<GGA_B>>),
      Line(FALSE, Bare(10, 0, 0, 0), <<RMC_14>>),
      Line(FALSE, Bare(10, 0, 2, 0), <<RMC_V>>),
      Line(FALSE, Bare(10, 0, 2, 0), <<GGA_SW>>),
      Line(FALSE, Bare(10, 0, 2, 0), <<GGA_B, RMC_14>>),
      Line(FALSE, Bare(10, 0, 0, 0), <<>>),
      Line(TRUE, Bare(10, 0, 2, 0), <<GGA_B>>),
      Line(TRUE, Bare(10, 11, 0, 0), <<GGA_A>>) }

\* $GPVTG,course,T,course_m,M,knots,N,kmh,K,mode
VTG(course, knots, kmh) ==
    Sentence("VTG", <<course, Txt("T"), Empty, Txt("M"), knots, Txt("N"), kmh, Txt("K"),
                      Txt("A*11")>>)
\* $GPGSV,total,msg_num,sats_in_view,...
GSV(msg_num, sats_in_view) ==
    Sentence("GSV", <<Digits(3, 1), msg_num, sats_in_view, Digits(1, 2), Digits(40, 2)>>)

VTG_18 == VTG(Dec(900), Dec(1000), Dec(18520))
VTG_36 == VTG(Dec(450), Dec(2000), Dec(37040))
\* the text 0.000 of a speed field
Zero000 == [k |-> "dec", s |-> "0.000", v |-> 0, len |-> 1]
\* a receiver at rest: $GPVTG,90.0,T,,M,0.000,N,0.000,K
VTG_Rest == VTG(Dec(900), Zero000, Zero000)
\* 10.00 kn with the km/h field 0.000, and with the km/h field 0.0
VTG_Knots == VTG(Dec(900), Dec(1000), Zero000)
VTG_Kmh0 == VTG(Dec(900), Dec(1000), Dec(0))
\* 10.00 kn, 18.52 km/h and no course
VTG_NoCourse == VTG(Empty, Dec(1000), Dec(18520))
GSV_1 == GSV(Digits(1, 1), Digits(11, 2))
GSV_2 == GSV(Digits(2, 1), Digits(12, 2))

SpeedLines ==
    { Line(FALSE, Bare(10, 0, 0, 0), <<VTG_18>>),
      Line(FALSE, Bare(10, 0, 0, 500), <<VTG_36>>),
      Line(FALSE, Bare(10, 0, 2, 0), <<VTG_18>>),
      Line(FALSE, Bare(10, 11, 0, 0), <<VTG_36>>),
      Line(FALSE, Bare(10, 0, 2, 0), <<GGA_A, VTG_18, VTG_36>>),
      Line(FALSE, Bare(10, 0, 2, 0), <<GGA_Q0, VTG_36>>),
      Line(FALSE, Bare(10, 0, 2, 0), <<GGA_QE>>),
      Line(FALSE, Bare(10, 0, 2, 0), <<GGA_Short, GGA_QX, VTG_36>>),
      Line(FALSE, Bare(10, 11, 0, 0), <<RMC_13>>),
      Line(FALSE, Bare(10, 0, 0, 500), <<VTG_Rest>>),
      Line(FALSE, Bare(10, 11, 0, 0), <<VTG_Knots>>),
      Line(FALSE, Bare(10, 0, 2, 0), <<VTG_Kmh0>>),
      Line(FALSE, Bare(10, 0, 2, 0), <<VTG_NoCourse>>),
      Line(FALSE, Bare(10, 0, 2, 0), <<RMC_V>>),
      Line(FALSE, NoStamp, <<VTG_18>>),
      Line(FALSE, Bare(10, 0, 0, 0), <<>>),
      Line(TRUE, Bare(10, 11, 0, 0), <<VTG_18>>) }

SatLines ==
    { Line(FALSE, Bare(10, 0, 0, 0), <<GGA_A>>),
      Line(FALSE, Bare(10, 0, 0, 500), <<GSV_1>>),
      Line(FALSE, Bare(10, 0, 2, 0), <<GSV_1>>),
      Line(FALSE, Bare(10, 0, 2, 0), <<GSV_2>>),
      Line(FALSE, Bare(10, 11, 0, 0), <<GGA_B>>),
      Line(FALSE, Bare(10, 0, 2, 0), <<GGA_Q0>>),
      Line(FALSE, Bare(10, 0, 2, 0), <<GGA_QE>>),
      Line(FALSE, NoStamp, <<GSV_1>>),
      Line(FALSE, Bare(10, 0, 2, 0), <<GGA_A, GSV_1>>),
      Line(FALSE, Bare(10, 0, 0, 0), <<>>) }

\* datetime.now().date() at the start of the run
Todays == {Date(2026, 1, 13), Date(2027, 1, 13)}

\* time passed between two readings of datetime.now(), in tenths of a second
Elapsed == {0, 20}

\* The end-to-end scenario: a GGA fix at 10:00:00, an RMC fix dated 130126 in the
\* same second, a second fix at 10:11:00, every line in the grammar g.
ScenarioStamp(g, h, mi, sec, ms) ==
    CASE g = "bare" -> Bare(h, mi, sec, ms)
      [] g = "mmdd" -> MonthDay(1, 13, h, mi, sec, ms)
      [] g = "full" -> Full(2026, 1, 13, h, mi, sec, ms)

Scenario(g, rmcMs, second) ==
    << Line(FALSE, ScenarioStamp(g, 10, 0, 0, 0), <<GGA_A>>),
       Line(FALSE, ScenarioStamp(g, 10, 0, 0, rmcMs), <<RMC_13>>),
       Line(FALSE, ScenarioStamp(g, 10, 11, 0, 0), <<second>>) >>

Scenarios ==
    { Scenario(g, rmcMs, second) :
        g \in {"bare", "mmdd", "full"}, rmcMs \in {0, 500}, second \in {GGA_A, GGA_B} }

ScenarioDays == {Date(2026, 1, 12), Date(2026, 1, 13), Date(2026, 11, 5), Date(2027, 1, 13)}

-----------------------------------------------------------------------------
(* The state machine                                                       *)

\* The state after the set-up of a parser, lines 30-58 of convert_logs_to_kml.py,
\* 28-51 of speed_analyser.py and of satellite_analyzer.py
Start(modes, days, scripts) ==
    /\ mode \in modes
    /\ IF mode = "coordinates"
       THEN /\ include_raw \in BOOLEAN
            /\ filter_date \in {None, Some(Date(2026, 1, 13))}
       ELSE /\ include_raw = FALSE
            /\ filter_date = None
    /\ IF filter_date # None
       THEN current_date = Val(filter_date)
       ELSE current_date \in days
    /\ clock = Datetime(current_date, TimeOfDay(12, 0, 0, 0))
    /\ pc = "line"
    /\ nlines = 0
    /\ script \in scripts
    /\ stamp_form = "none"
    /\ log_file = 1
    /\ line = None
    /\ nmea_matches = <<>>
    /\ nmea_sentence = None
    /\ is_raw_message = FALSE
    /\ log_timestamp = None
    /\ current_lat = None /\ current_lon = None /\ current_alt = None
    /\ current_speed = None /\ current_course = None
    /\ last_valid_timestamp = None /\ last_raw_timestamp = None
    /\ current_track = <<>> /\ current_raw_track = <<>> /\ all_tracks = <<>>
    /\ current_bearing = None /\ current_sats_view = None /\ current_sats_use = None
    /\ timestamps = <<>> /\ speeds_kmh = <<>> /\ bearings = <<>> /\ coordinates = <<>>
    /\ satellites_in_view = <<>> /\ satellites_in_use = <<>>
    /\ outcome = "none"
    /\ accepted = [primary |-> <<>>, raw |-> <<>>]
    /\ history = <<>> /\ first_tracks = <<>>
    /\ min_speed = None /\ bearing_accuracy = None

Init == Start({"coordinates", "speed", "satellites"}, Todays, {<<>>}) /\ run = "single"

InitScenario == Start({"coordinates"}, ScenarioDays, Scenarios) /\ run = "single"

\* Lines 91-155 of the line loop of parse_android_logs_for_coordinates
CoordLine(l) ==
    /\ mode = "coordinates" /\ pc = "line" /\ nlines < MaxLines
    /\ line' = Some(l)
    /\ nlines' = nlines + 1
    /\ outcome' = "none"
    /\ history' = IF run = "first" /\ ~l.raw THEN Append(history, l) ELSE history
    /\ UNCHANGED <<ctlVars, analysisVars, log_file, nmea_sentence, run, first_tracks, clock, listVars, speedVars, satVars>>
    /\ UNCHANGED <<current_date, current_lat, current_lon, current_alt, current_speed,
                   current_course, last_valid_timestamp, last_raw_timestamp, accepted>>
    /\ IF findall_to_eol(l) = <<>>
       THEN UNCHANGED <<pc, nmea_matches, is_raw_message, log_timestamp, stamp_form,
                        current_track, current_raw_track, all_tracks>>
       ELSE IF SkipRaw(l.raw, include_raw)
       THEN /\ is_raw_message' = l.raw
            /\ UNCHANGED <<pc, nmea_matches, log_timestamp, stamp_form,
                           current_track, current_raw_track, all_tracks>>
       ELSE LET ts == ResolveTimestamp(l.stamp, current_date)
            IN  /\ is_raw_message' = l.raw
                /\ stamp_form' = l.stamp.form
                /\ log_timestamp' = ts
                /\ nmea_matches' = findall_to_eol(l)
                /\ pc' = "sentence"
                /\ IF GapStream(l.raw) = "raw"
                   THEN /\ UNCHANGED current_track
                        /\ IF GapExceeded(ts, last_raw_timestamp)
                           THEN /\ all_tracks' = Finalized(all_tracks, current_raw_track)
                                /\ current_raw_track' = <<>>
                           ELSE UNCHANGED <<all_tracks, current_raw_track>>
                   ELSE /\ UNCHANGED current_raw_track
                        /\ IF GapExceeded(ts, last_valid_timestamp)
                           THEN /\ all_tracks' = Finalized(all_tracks, current_track)
                                /\ current_track' = <<>>
                           ELSE UNCHANGED <<all_tracks, current_track>>

\* The iteration of the sentence loop on the first pending sentence is left before
\* the record step, by "continue" or by an exception that the iteration's
\* "except Exception" catches
LeftEarly ==
    LET s == Head(nmea_matches)
    IN  /\ s.type = "GGA"
        /\ CASE mode = "coordinates" ->
                    gga_coordinates(s.parts, [lat |-> current_lat, lon |-> current_lon,
                                              alt |-> current_alt]).skip
              [] mode = "speed" ->
                    gga_speed(s.parts, [lat |-> current_lat, lon |-> current_lon]).skip
              [] OTHER -> FALSE

\* mutant: an iteration that is left early ends the sentence loop of the line
AfterSentence_abort(matches, left) == IF left THEN <<>> ELSE Tail(matches)

\* "except Exception as e: continue  # Skip malformed NMEA sentences": the sentences
\* still to be handled after an iteration, however it ended
AfterSentence(matches, left) == Tail(matches)

\* One iteration of the sentence loop, lines 158-280
CoordSentence ==
    /\ mode = "coordinates" /\ pc = "sentence"
    /\ LET s == Head(nmea_matches)
           fix == [lat |-> current_lat, lon |-> current_lon, alt |-> current_alt]
           g == IF s.type = "GGA" THEN gga_coordinates(s.parts, fix)
                ELSE [lat |-> fix.lat, lon |-> fix.lon, alt |-> fix.alt, skip |-> FALSE]
           st == [speed |-> current_speed, course |-> current_course, date |-> current_date]
           r == IF s.type = "RMC" THEN rmc_coordinates(s.parts, st) ELSE st
           cand == IsCandidate(g.skip, log_timestamp, g.lat, g.lon, filter_date)
           to_raw == RecordStream(is_raw_message) = "raw"
           track == IF to_raw THEN current_raw_track ELSE current_track
           rec == cand /\ IsNewSample(track, Val(log_timestamp), Val(g.lat), Val(g.lon))
           \* the tuple the code appends, with three history fields: whether the Sample
           \* comes from a raw-marked line, the file it was read from, and its rank among
           \* the accepted Samples
           sample == [timestamp |-> Val(log_timestamp), lon |-> Val(g.lon), lat |-> Val(g.lat),
                      alt |-> OrZero(g.alt), speed |-> OrZero(r.speed),
                      course |-> OrZero(r.course),
                      raw |-> is_raw_message,
                      file |-> log_file,
                      n |-> Len(accepted.primary) + Len(accepted.raw) + 1]
       IN  /\ current_lat' = g.lat /\ current_lon' = g.lon /\ current_alt' = g.alt
           /\ current_speed' = r.speed /\ current_course' = r.course
           /\ current_date' = r.date
           /\ outcome' = IF rec THEN "recorded" ELSE IF cand THEN "dropped" ELSE "none"
           /\ IF to_raw
              THEN /\ current_raw_track' = IF rec THEN Append(current_raw_track, sample)
                                           ELSE current_raw_track
                   /\ last_raw_timestamp' =
                          IF cand THEN CursorAfter(rec, Val(log_timestamp), last_raw_timestamp)
                          ELSE last_raw_timestamp
                   /\ accepted' = IF rec THEN [accepted EXCEPT !.raw = Append(@, sample)]
                                  ELSE accepted
                   /\ UNCHANGED <<current_track, last_valid_timestamp>>
              ELSE /\ current_track' = IF rec THEN Append(current_track, sample)
                                       ELSE current_track
                   /\ last_valid_timestamp' =
                          IF cand THEN CursorAfter(rec, Val(log_timestamp), last_valid_timestamp)
                          ELSE last_valid_timestamp
                   /\ accepted' = IF rec THEN [accepted EXCEPT !.primary = Append(@, sample)]
                                  ELSE accepted
                   /\ UNCHANGED <<current_raw_track, last_raw_timestamp>>
    /\ nmea_sentence' = Some(Head(nmea_matches))
    /\ nmea_matches' = AfterSentence(nmea_matches, LeftEarly)
    /\ pc' = IF nmea_matches' = <<>> THEN "line" ELSE "sentence"
    /\ UNCHANGED <<ctlVars, analysisVars, log_file, line, rerunVars, nlines, script, stamp_form, clock, is_raw_message,
                   log_timestamp, all_tracks, listVars, speedVars, satVars>>

\* End of input, lines 286-293: close the open tracks and return all_tracks
CoordFinish ==
    /\ mode = "coordinates" /\ pc = "line" /\ script = <<>>
    /\ pc' = "done"
    /\ current_track' = <<>>
    /\ current_raw_track' = IF include_raw THEN <<>> ELSE current_raw_track
    /\ all_tracks' = IF include_raw
                     THEN Finalized(Finalized(all_tracks, current_track), current_raw_track)
                     ELSE Finalized(all_tracks, current_track)
    /\ outcome' = "none"
    /\ UNCHANGED <<ctlVars, analysisVars, log_file, line, nmea_sentence, rerunVars, nlines, script, stamp_form, clock, nmea_matches,
                   is_raw_message, log_timestamp, current_date, current_lat, current_lon, current_alt, current_speed,
                   current_course, last_valid_timestamp, last_raw_timestamp, accepted,
                   listVars, speedVars, satVars>>

\* The next line of the input is any line of the mode's repertoire
ReadCoordLine ==
    /\ script = <<>>
    /\ \E l \in CoordLines : CoordLine(l)
    /\ UNCHANGED script

\* The next line of the input is the next line of the scenario
ReadScenarioLine ==
    /\ script # <<>>
    /\ CoordLine(Head(script))
    /\ script' = Tail(script)

\* Lines 69-116 of the line loop of parse_android_log_speed_data
SpeedLine(l) ==
    /\ mode = "speed" /\ pc = "line" /\ nlines < MaxLines
    /\ line' = Some(l)
    /\ nlines' = nlines + 1
    /\ outcome' = "none"
    /\ UNCHANGED <<ctlVars, analysisVars, log_file, nmea_sentence, rerunVars, script, clock, is_raw_message, current_date, current_lat,
                   current_lon, current_speed, coordVars, listVars, speedVars, satVars>>
    /\ IF l.raw \/ findall_to_dollar(l) = <<>>
       THEN UNCHANGED <<pc, nmea_matches, log_timestamp, stamp_form>>
       ELSE /\ log_timestamp' = ResolveTimestamp(l.stamp, current_date)
            /\ stamp_form' = l.stamp.form
            /\ nmea_matches' = findall_to_dollar(l)
            /\ pc' = "validate"

\* Lines 118-123: the default timestamp and validate_and_fix_timestamp
SpeedValidate ==
    /\ mode = "speed" /\ pc = "validate"
    /\ pc' = "sentence"
    /\ IF log_timestamp = None
       THEN \E e \in Elapsed :
                /\ clock' = clock + e
                /\ log_timestamp' = Some(validate_and_fix_timestamp(clock', timestamps))
       ELSE /\ clock' = clock
            /\ log_timestamp' = Some(validate_and_fix_timestamp(Val(log_timestamp), timestamps))
    /\ UNCHANGED <<ctlVars, analysisVars, log_file, line, nmea_sentence, rerunVars, nlines, script, stamp_form, nmea_matches, is_raw_message,
                   current_date, current_lat, current_lon, current_speed, outcome,
                   coordVars, listVars, speedVars, satVars>>

\* One iteration of the sentence loop, lines 126-236
SpeedSentence ==
    /\ mode = "speed" /\ pc = "sentence"
    /\ LET s == Head(nmea_matches)
           st0 == [speed |-> current_speed, bearing |-> current_bearing]
           st == IF s.type = "VTG" THEN vtg_speed(s.parts, st0)
                 ELSE IF s.type = "RMC" THEN rmc_speed(s.parts, st0)
                 ELSE st0
           fix == [lat |-> current_lat, lon |-> current_lon]
           g == IF s.type = "GGA" THEN gga_speed(s.parts, fix)
                ELSE [lat |-> fix.lat, lon |-> fix.lon, skip |-> FALSE]
           cand == ~g.skip /\ st.speed # None
           rec == cand /\ IsNewRecord(timestamps, Val(log_timestamp))
       IN  /\ current_lat' = g.lat /\ current_lon' = g.lon
           /\ current_speed' = IF cand THEN None ELSE st.speed
           /\ current_bearing' = IF cand THEN None ELSE st.bearing
           /\ outcome' = IF rec THEN "recorded" ELSE IF cand THEN "dropped" ELSE "none"
           /\ timestamps' = IF rec THEN Append(timestamps, Val(log_timestamp)) ELSE timestamps
           /\ speeds_kmh' = IF rec THEN Append(speeds_kmh, Val(st.speed)) ELSE speeds_kmh
           /\ bearings' = IF rec THEN Append(bearings, OrZero(st.bearing)) ELSE bearings
           /\ coordinates' = IF rec THEN Append(coordinates, LonLat(g.lat, g.lon))
                             ELSE coordinates
    /\ nmea_sentence' = Some(Head(nmea_matches))
    /\ nmea_matches' = AfterSentence(nmea_matches, LeftEarly)
    /\ pc' = IF nmea_matches' = <<>> THEN "line" ELSE "sentence"
    /\ UNCHANGED <<ctlVars, analysisVars, log_file, line, rerunVars, nlines, script, stamp_form, clock, is_raw_message,
                   log_timestamp, current_date, coordVars, satVars>>

\* Lines 68-111 of the line loop of parse_android_log_satellite_data
SatLine(l) ==
    /\ mode = "satellites" /\ pc = "line" /\ nlines < MaxLines
    /\ line' = Some(l)
    /\ nlines' = nlines + 1
    /\ outcome' = "none"
    /\ UNCHANGED <<ctlVars, analysisVars, log_file, nmea_sentence, rerunVars, script, clock, is_raw_message, current_date, current_lat,
                   current_lon, current_speed, coordVars, listVars, speedVars, satVars>>
    /\ IF findall_to_eol(l) = <<>>
       THEN UNCHANGED <<pc, nmea_matches, log_timestamp, stamp_form>>
       ELSE /\ log_timestamp' = ResolveTimestamp(l.stamp, current_date)
            /\ stamp_form' = l.stamp.form
            /\ nmea_matches' = findall_to_eol(l)
            /\ pc' = "sentence"

\* One iteration of the sentence loop, lines 114-193
SatSentence ==
    /\ mode = "satellites" /\ pc = "sentence"
    /\ LET s == Head(nmea_matches)
           st0 == [lat |-> current_lat, lon |-> current_lon, use |-> current_sats_use]
           st == IF s.type = "GGA" THEN gga_satellites(s.parts, st0) ELSE st0
           view == IF s.type = "GSV" THEN gsv_satellites(s.parts, current_sats_view)
                   ELSE current_sats_view
           cand == log_timestamp # None /\ (view # None \/ st.use # None)
           rec == cand /\ IsNewRecord(timestamps, Val(log_timestamp))
       IN  /\ current_lat' = st.lat /\ current_lon' = st.lon
           /\ current_sats_view' = IF cand THEN None ELSE view
           /\ current_sats_use' = IF cand THEN None ELSE st.use
           /\ outcome' = IF rec THEN "recorded" ELSE IF cand THEN "dropped" ELSE "none"
           /\ timestamps' = IF rec THEN Append(timestamps, Val(log_timestamp)) ELSE timestamps
           /\ satellites_in_view' =
                  IF rec THEN Append(satellites_in_view, LastKnown(view, satellites_in_view))
                  ELSE satellites_in_view
           /\ satellites_in_use' =
                  IF rec THEN Append(satellites_in_use, LastKnown(st.use, satellites_in_use))
                  ELSE satellites_in_use
           /\ coordinates' =
                  IF rec /\ st.lat # None /\ st.lon # None
                  THEN Append(coordinates, <<Val(st.lon), Val(st.lat)>>)
                  ELSE coordinates
    /\ nmea_sentence' = Some(Head(nmea_matches))
    /\ nmea_matches' = AfterSentence(nmea_matches, LeftEarly)
    /\ pc' = IF nmea_matches' = <<>> THEN "line" ELSE "sentence"
    /\ UNCHANGED <<ctlVars, analysisVars, log_file, line, rerunVars, nlines, script, stamp_form, clock, is_raw_message,
                   log_timestamp, current_date, current_speed, coordVars, speedVars>>

\* End of input in speed and satellite mode: return the lists
ListFinish ==
    /\ mode \in {"speed", "satellites"} /\ pc = "line"
    /\ pc' = "done"
    /\ outcome' = "none"
    /\ UNCHANGED <<ctlVars, analysisVars, log_file, line, nmea_sentence, rerunVars, nlines, script, stamp_form, clock, nmea_matches,
                   is_raw_message, log_timestamp, current_date, current_lat, current_lon,
                   current_speed, coordVars, listVars, speedVars, satVars>>

ReadSpeedLine == \E l \in SpeedLines : SpeedLine(l)

ReadSatLine == \E l \in SatLines : SatLine(l)

Next ==
    \/ ReadCoordLine
    \/ CoordSentence
    \/ CoordFinish
    \/ ReadSpeedLine
    \/ SpeedValidate
    \/ SpeedSentence
    \/ ReadSatLine
    \/ SatSentence
    \/ ListFinish

Spec == Init /\ [][Next]_vars

NextScenario ==
    \/ ReadScenarioLine
    \/ CoordSentence
    \/ CoordFinish

SpecScenario == InitScenario /\ [][NextScenario]_vars

\* Two calls with include_raw true: the first on any lines, the second on the
\* same lines with the raw-marked lines deleted.
RerunLines ==
    { Line(FALSE, Bare(10, 0, 0, 0), <<GGA_A>>),
      Line(FALSE, Bare(10, 0, 2, 0), <<GGA_A>>),
      Line(FALSE, Bare(10, 11, 0, 0), <<GGA_A>>),
      Line(FALSE, Bare(10, 0, 0, 0), <<RMC_14>>),
      Line(TRUE, Bare(10, 0, 0, 0), <<RMC_13>>),
      Line(TRUE, Bare(10, 0, 2, 0), <<GGA_B>>),
      Line(TRUE, Bare(10, 11, 0, 0), <<GGA_A>>) }

InitRerun == Start({"coordinates"}, Todays, {<<>>}) /\ include_raw /\ run = "first"

ReadRerunLine ==
    /\ run = "first" /\ script = <<>>
    /\ \E l \in RerunLines : CoordLine(l)
    /\ UNCHANGED script

\* The first call has returned; the second call starts from the set-up of lines
\* 30-58 on the lines without raw marker that the first call read.
Rerun ==
    /\ mode = "coordinates" /\ pc = "done" /\ run = "first"
    /\ run' = "second"
    /\ first_tracks' = all_tracks
    /\ script' = history
    /\ pc' = "line"
    /\ line' = None
    /\ log_file' = 1
    /\ nlines' = 0
    /\ current_date' = IF filter_date # None THEN Val(filter_date)
                       ELSE CHOOSE d \in Todays : Datetime(d, TimeOfDay(12, 0, 0, 0)) = clock
    /\ stamp_form' = "none" /\ nmea_matches' = <<>> /\ is_raw_message' = FALSE
    /\ nmea_sentence' = None
    /\ log_timestamp' = None
    /\ current_lat' = None /\ current_lon' = None /\ current_alt' = None
    /\ current_speed' = None /\ current_course' = None
    /\ last_valid_timestamp' = None /\ last_raw_timestamp' = None
    /\ current_track' = <<>> /\ current_raw_track' = <<>> /\ all_tracks' = <<>>
    /\ outcome' = "none"
    /\ accepted' = [primary |-> <<>>, raw |-> <<>>]
    /\ UNCHANGED <<ctlVars, analysisVars, history, clock, listVars, speedVars, satVars>>

NextRerun ==
    \/ ReadRerunLine
    \/ CoordSentence
    \/ CoordFinish
    \/ Rerun
    \/ ReadScenarioLine

SpecRerun == InitRerun /\ [][NextRerun]_vars

-----------------------------------------------------------------------------
(* main() of speed_analyser.py after the parser has returned its four      *)
(* lists: trim_low_speed_points, then calculate_bearing_accuracy (called   *)
(* by the plot functions).  In these lists an element of bearings is       *)
(* optional, as calculate_bearing_accuracy provides for, and bearings are  *)
(* counted in 0.1 degree.                                                  *)

MaxSpeeds == 7
MaxFixes == 3

\* speeds and thresholds in 1e-5 km/h: 0, 5, 15, 20 km/h; 2, 5, 6 km/h
SpeedValues == {0, 500000, 1500000, 2000000}
Thresholds == {200000, 500000, 600000}

\* the origin, the point 1 degree north and the point 1 degree east, or no fix
FixValues == {None, Some(<<0, 0>>), Some(<<0, 600000>>), Some(<<600000, 0>>)}

\* unset, 0, 90 degrees, 600 degrees, -5 degrees
BearingValues == {None, Some(0), Some(900), Some(6000), Some(0 - 50)}

\* n timestamps 2 s apart
Stamps(n) == [i \in 1..n |-> Datetime(Date(2026, 1, 13), TimeOfDay(10, 0, 2 * i, 0))]

\* The lists main() holds when a parser has returned, and args.min_speed: either
\* any speeds (with fixes and bearings that tell the indices apart), or any
\* fixes and bearings (with speeds above the threshold)
InitAnalysis ==
    /\ mode = "speed" /\ include_raw = FALSE /\ filter_date = None
    /\ pc = "parsed"
    /\ \/ \E n \in 0..MaxSpeeds :
              /\ speeds_kmh \in [1..n -> SpeedValues]
              /\ timestamps = Stamps(n)
              /\ coordinates = [i \in 1..n |-> Some(<<0, 600000 * (i % 2)>>)]
              /\ bearings = [i \in 1..n |-> Some(10 * i)]
              /\ min_speed \in {Some(m) : m \in Thresholds}
       \/ \E n \in 0..MaxFixes :
              /\ speeds_kmh = [i \in 1..n |-> 2000000]
              /\ timestamps = Stamps(n)
              /\ coordinates \in [1..n -> FixValues]
              /\ bearings \in [1..n -> BearingValues]
              /\ min_speed = Some(200000)
    /\ bearing_accuracy = None
    /\ current_date = Date(2026, 1, 13)
    /\ clock = Datetime(current_date, TimeOfDay(12, 0, 0, 0))
    /\ nlines = 0 /\ script = <<>> /\ stamp_form = "none"
    /\ log_file = 1 /\ line = None /\ nmea_matches = <<>> /\ nmea_sentence = None
    /\ is_raw_message = FALSE /\ log_timestamp = None
    /\ current_lat = None /\ current_lon = None /\ current_alt = None
    /\ current_speed = None /\ current_course = None
    /\ last_valid_timestamp = None /\ last_raw_timestamp = None
    /\ current_track = <<>> /\ current_raw_track = <<>> /\ all_tracks = <<>>
    /\ current_bearing = None /\ current_sats_view = None /\ current_sats_use = None
    /\ satellites_in_view = <<>> /\ satellites_in_use = <<>>
    /\ outcome = "none"
    /\ accepted = [primary |-> <<>>, raw |-> <<>>]
    /\ run = "single" /\ history = <<>> /\ first_tracks = <<>>

\* what neither trimming nor the bearing comparison touches
parserVars == <<nlines, script, stamp_form, clock, log_file, line, nmea_matches, nmea_sentence, is_raw_message,
                log_timestamp,
                current_date, current_lat, current_lon, current_speed, current_bearing,
                outcome>>

\* "Trim low-speed points at start and end (unless disabled)"
TrimLowSpeed ==
    /\ mode = "speed" /\ pc = "parsed"
    /\ LET trimmed == trim_low_speed_points(timestamps, speeds_kmh, coordinates, bearings,
                                            Val(min_speed))
       IN  /\ timestamps' = trimmed[1]
           /\ speeds_kmh' = trimmed[2]
           /\ coordinates' = trimmed[3]
           /\ bearings' = trimmed[4]
    /\ pc' = "trimmed"
    /\ UNCHANGED <<ctlVars, rerunVars, coordVars, satVars, parserVars, min_speed,
                   bearing_accuracy>>

\* bearing_accuracy = calculate_bearing_accuracy(coordinates, bearings), with or
\* without trimming before (args.no_trim)
BearingAccuracy ==
    /\ mode = "speed" /\ pc \in {"parsed", "trimmed"}
    /\ bearing_accuracy' = Some(calculate_bearing_accuracy(coordinates, bearings))
    /\ pc' = "analysed"
    /\ UNCHANGED <<ctlVars, rerunVars, coordVars, satVars, parserVars, min_speed,
                   listVars, speeds_kmh, bearings>>

\* trim_low_speed_points applied to its own result, with the same threshold
TrimAgain ==
    /\ mode = "speed" /\ pc = "trimmed"
    /\ LET trimmed == trim_low_speed_points(timestamps, speeds_kmh, coordinates, bearings,
                                            Val(min_speed))
       IN  /\ timestamps' = trimmed[1]
           /\ speeds_kmh' = trimmed[2]
           /\ coordinates' = trimmed[3]
           /\ bearings' = trimmed[4]
    /\ pc' = "retrimmed"
    /\ UNCHANGED <<ctlVars, rerunVars, coordVars, satVars, parserVars, min_speed,
                   bearing_accuracy>>

NextAnalysis ==
    \/ TrimLowSpeed
    \/ TrimAgain
    \/ BearingAccuracy

SpecAnalysis == InitAnalysis /\ [][NextAnalysis]_vars

-----------------------------------------------------------------------------
(* Properties of parse_android_logs_for_coordinates                        *)

\* every Track, closed or open
Tracks == {all_tracks[i] : i \in 1..Len(all_tracks)} \cup {current_track, current_raw_track}

\* the primary Tracks in output order, the open one last, in a run without raw Samples
PrimaryTracks ==
    IF current_track = <<>> THEN all_tracks ELSE Append(all_tracks, current_track)

\* C1: in every Track the function returns, each Sample's timestamp is strictly
\* greater than the timestamp of the Sample before it.
C1_StrictlyIncreasing ==
    pc = "done" =>
        \A i \in 1..Len(all_tracks) :
            \A j \in 1..(Len(all_tracks[i]) - 1) :
                all_tracks[i][j + 1].timestamp > all_tracks[i][j].timestamp

\* C2: in every Track, closed or still open, a Sample is at most 600 s later than
\* the Sample before it.
C2_GapWithinThreshold ==
    \A t \in Tracks :
        \A j \in 1..(Len(t) - 1) :
            t[j + 1].timestamp - t[j].timestamp <= TRACK_GAP_THRESHOLD * 10

\* a fix more than 600 s after the last Sample of a Track of two Samples went
\* into a new Track
C2_Witness ==
    /\ pc = "done"
    /\ Len(all_tracks) = 2
    /\ Len(all_tracks[1]) = 2
    /\ all_tracks[2][1].timestamp - all_tracks[1][2].timestamp > TRACK_GAP_THRESHOLD * 10

\* C3: Tracks are split only at a real gap: of two Tracks of the primary stream
\* that follow each other, the later starts more than 600 s after the last
\* Sample of the earlier (stated for runs in which no raw Sample was accepted,
\* where every Track is a primary Track).
C3_SplitOnlyAtGap ==
    accepted.raw = <<>> =>
        \A i \in 1..(Len(PrimaryTracks) - 1) :
            PrimaryTracks[i + 1][1].timestamp - Last(PrimaryTracks[i]).timestamp
                > TRACK_GAP_THRESHOLD * 10

\* the stream of the current line and what it has accepted so far
Stream == IF is_raw_message THEN "raw" ELSE "primary"

\* C4: a candidate fix is recorded if and only if its stream has accepted no
\* Sample before, or it is more than 1 s from the stream's last accepted Sample,
\* or more than 1e-4 degree from it in latitude, or in longitude.
C4_RecordedIffNew ==
    [][(mode = "coordinates" /\ outcome' # "none") =>
          ((outcome' = "recorded") <=>
              \/ accepted[Stream] = <<>>
              \/ Abs(Val(log_timestamp) - Last(accepted[Stream]).timestamp) > 10
              \/ Abs(Val(current_lat') - Last(accepted[Stream]).lat) > 60
              \/ Abs(Val(current_lon') - Last(accepted[Stream]).lon) > 60)]_vars

\* the cursor of the primary and of the raw stream
Cursors == <<last_valid_timestamp, current_track, last_raw_timestamp, current_raw_track,
             all_tracks, timestamps>>

\* C5: a candidate dropped as a duplicate leaves the cursors as they were (last
\* accepted timestamps, open Tracks, the recorded timestamps of speed mode), and
\* the Sample it was compared with is the last accepted Sample of its stream.
C5_DropLeavesCursor ==
    [][outcome' = "dropped" =>
          /\ Cursors' = Cursors
          /\ accepted' = accepted
          /\ mode = "coordinates" =>
                /\ (IF is_raw_message THEN current_raw_track ELSE current_track) # <<>>
                /\ Last(IF is_raw_message THEN current_raw_track ELSE current_track)
                      = Last(accepted[Stream])]_vars

\* a fix 0.5 s after an accepted Sample, at its coordinates, was dropped
C5_Witness ==
    /\ outcome = "dropped"
    /\ mode = "coordinates"
    /\ Len(current_track) = 1
    /\ Val(log_timestamp) - Val(last_valid_timestamp) = 5

\* what the function keeps between lines, but for the position in the input
ParserState == <<pc, nmea_matches, nmea_sentence, log_timestamp, current_date, current_lat, current_lon,
                 current_alt, current_speed, current_course, last_valid_timestamp,
                 last_raw_timestamp, current_track, current_raw_track, all_tracks,
                 accepted>>

\* C10: with include_raw false, reading a raw-marked line changes nothing: no
\* sentence of it is processed, no Sample, FixState field, cursor or Track changes.
C10_RawLineIgnored ==
    [][(mode = "coordinates" /\ ~include_raw /\ nlines' = nlines + 1 /\ is_raw_message') =>
          ParserState' = ParserState]_vars

\* a raw-marked line was read and skipped after a Sample had been accepted
C10_Witness ==
    /\ mode = "coordinates" /\ ~include_raw
    /\ is_raw_message /\ pc = "line"
    /\ current_track # <<>>
\* C6: end to end, a GGA fix at 10:00:00, an RMC fix dated 130126 and a second
\* fix at 10:11:00 give exactly two Tracks of one Sample each, for every seed of
\* the current date and every timestamp grammar.
C6_EndToEnd ==
    (pc = "done" /\ nlines = 3) =>
        /\ Len(all_tracks) = 2
        /\ Len(all_tracks[1]) = 1
        /\ Len(all_tracks[2]) = 1

-----------------------------------------------------------------------------
(* Properties of parse_android_log_speed_data and of all three parsers     *)

\* C7: validate_and_fix_timestamp returns the candidate when nothing has been
\* recorded or the candidate is not before the last recorded timestamp; else the
\* last plus the difference of the last two, or the last plus 1 s when only one
\* timestamp has been recorded.
C7_ValidateAndFix ==
    [][(mode = "speed" /\ pc = "validate") =>
          LET cand == IF log_timestamp = None THEN clock' ELSE Val(log_timestamp)
              n == Len(timestamps)
          IN  log_timestamp' =
                  Some(IF n = 0 THEN cand
                       ELSE IF cand >= timestamps[n] THEN cand
                       ELSE IF n >= 2 THEN timestamps[n] + (timestamps[n] - timestamps[n - 1])
                       ELSE timestamps[n] + 10)]_vars

\* a line stamped before the last of two recorded timestamps, 660 s apart, has
\* just been given the last timestamp plus 660 s
C7_Witness ==
    /\ mode = "speed" /\ pc = "sentence"
    /\ Len(timestamps) = 2
    /\ timestamps[2] - timestamps[1] = 6600
    /\ Val(log_timestamp) = timestamps[2] + 6600

\* C8: the timestamps recorded by parse_android_log_speed_data are strictly
\* increasing, whatever the order of the line timestamps.
C8_RecordedIncreasing ==
    mode = "speed" =>
        \A i \in 1..(Len(timestamps) - 1) : timestamps[i + 1] > timestamps[i]

\* a repaired timestamp (660 s after the last, which no line carries) was recorded
C8_Witness ==
    /\ mode = "speed" /\ pc = "line"
    /\ Len(timestamps) = 3
    /\ timestamps[2] - timestamps[1] = 6600
    /\ timestamps[3] - timestamps[2] = 6600

\* C9: while the sentences of a line that shows no timestamp grammar are
\* processed, no Sample is recorded, in any of the three parsers.
C9_NoStampNoSample ==
    [][(pc = "sentence" /\ stamp_form = "none") =>
          /\ outcome' # "recorded"
          /\ timestamps' = timestamps
          /\ accepted' = accepted]_vars

-----------------------------------------------------------------------------
(* Properties of the two streams of parse_android_logs_for_coordinates     *)

\* C11: with include_raw true, no Track, closed or open, holds both a Sample of a
\* raw-marked line and a Sample of a primary line.
C11_TracksNotMerged ==
    include_raw =>
        \A t \in Tracks : \A i, j \in 1..Len(t) : t[i].raw = t[j].raw

\* the call returned a Track of raw Samples and a Track of primary Samples
C11_Witness ==
    /\ pc = "done" /\ include_raw
    /\ \E i, j \in 1..Len(all_tracks) : all_tracks[i][1].raw /\ ~all_tracks[j][1].raw

\* the tuple of a Sample as the function returns it
Fields(s) == <<s.timestamp, s.lon, s.lat, s.alt, s.speed, s.course>>

\* the returned Tracks, as lists of tuples
TuplesOf(tracks) ==
    [i \in 1..Len(tracks) |-> [j \in 1..Len(tracks[i]) |-> Fields(tracks[i][j])]]

\* the Tracks of primary Samples among the returned Tracks
PrimaryOf(tracks) == SelectSeq(tracks, LAMBDA t : ~t[1].raw)

\* C12: with include_raw true, the primary Tracks returned for an input equal the
\* Tracks returned for the same input with all raw-marked lines deleted.
C12_PrimaryIndependent ==
    (pc = "done" /\ run = "second") =>
        TuplesOf(PrimaryOf(first_tracks)) = TuplesOf(all_tracks)

\* C13: while a raw-marked line is processed the primary Track and the primary
\* last-accepted timestamp stay as they are, and only the raw Track may be closed;
\* while a primary line is processed the same holds with the streams exchanged.
C13_GapDetectionPerStream ==
    [][(mode = "coordinates" /\ pc # "done" /\ pc' # "done") =>
          IF is_raw_message'
          THEN /\ current_track' = current_track
               /\ last_valid_timestamp' = last_valid_timestamp
               /\ all_tracks' \in {all_tracks, Append(all_tracks, current_raw_track)}
          ELSE /\ current_raw_track' = current_raw_track
               /\ last_raw_timestamp' = last_raw_timestamp
               /\ all_tracks' \in {all_tracks, Append(all_tracks, current_track)}]_vars

\* a raw-marked line more than 600 s after the last raw Sample has closed the raw
\* Track while a primary Track is open
C13_Witness ==
    /\ mode = "coordinates" /\ include_raw
    /\ is_raw_message /\ pc = "sentence"
    /\ current_raw_track = <<>> /\ last_raw_timestamp # None
    /\ current_track # <<>>
    /\ all_tracks # <<>> /\ Last(all_tracks)[1].raw

\* the Samples of a list of Tracks, in output order
RECURSIVE Flatten(_)
Flatten(tracks) == IF tracks = <<>> THEN <<>> ELSE Head(tracks) \o Flatten(Tail(tracks))

\* the Tracks of raw Samples among the returned Tracks
RawOf(tracks) == SelectSeq(tracks, LAMBDA t : t[1].raw)

\* C14: when the function has returned, no Track is left open, and the returned
\* Tracks of each stream, one after the other, are exactly the Samples the stream
\* accepted, in acceptance order: none lost, none twice.
C14_NothingLost ==
    pc = "done" =>
        /\ current_track = <<>> /\ current_raw_track = <<>>
        /\ Flatten(PrimaryOf(all_tracks)) = accepted.primary
        /\ Flatten(RawOf(all_tracks)) = accepted.raw

\* the call returned three Tracks holding the two primary Samples and the raw
\* Sample it accepted
C14_Witness ==
    /\ pc = "done"
    /\ Len(accepted.primary) = 2 /\ Len(accepted.raw) = 1
    /\ Len(all_tracks) = 3

\* C15: the returned Tracks are in detection order: the first Sample of each Track
\* was accepted before the first Sample of every Track after it, also between a
\* primary and a raw Track.
C15_DetectionOrder ==
    pc = "done" =>
        \A i, j \in 1..Len(all_tracks) : i < j => all_tracks[i][1].n < all_tracks[j][1].n

\* C16: with filter_date set, every Sample of every Track, closed or open, has a
\* timestamp on the filter date.
C16_DateFilter ==
    filter_date # None =>
        \A t \in Tracks : \A i \in 1..Len(t) :
            DateOf(t[i].timestamp) = toordinal(Val(filter_date))

\* after a Sample was accepted and an RMC sentence changed the current date, a fix
\* on a line dated to another day than filter_date was not recorded
C16_Witness ==
    /\ mode = "coordinates" /\ filter_date # None
    /\ pc = "line" /\ outcome = "none"
    /\ accepted.primary # <<>>
    /\ current_lat # None /\ current_lon # None
    /\ log_timestamp # None
    /\ DateOf(Val(log_timestamp)) # toordinal(Val(filter_date))

-----------------------------------------------------------------------------
(* Properties of trim_low_speed_points and calculate_bearing_accuracy      *)

\* the indices of the speeds that reach min_speed
Reaching == {i \in 1..Len(speeds_kmh) : speeds_kmh[i] >= Val(min_speed)}

\* C17: trim_low_speed_points returns, of each of the four lists, the part from
\* the first to the last index whose speed reaches the threshold, with every
\* point between them, and four empty lists when no speed reaches it.
C17_TrimSubRange ==
    [][(pc = "parsed" /\ pc' = "trimmed") =>
          IF Reaching = {}
          THEN /\ timestamps' = <<>> /\ speeds_kmh' = <<>>
               /\ coordinates' = <<>> /\ bearings' = <<>>
          ELSE LET first == CHOOSE i \in Reaching : \A j \in Reaching : i <= j
                   last == CHOOSE i \in Reaching : \A j \in Reaching : i >= j
               IN  /\ timestamps' = SubSeq(timestamps, first, last)
                   /\ speeds_kmh' = SubSeq(speeds_kmh, first, last)
                   /\ coordinates' = SubSeq(coordinates, first, last)
                   /\ bearings' = SubSeq(bearings, first, last)]_vars

\* speeds [0, 0, 5, 20, 15, 0, 0] have been trimmed with threshold 2 to [5, 20, 15],
\* the points 3 to 5
C17_Witness ==
    /\ pc = "trimmed"
    /\ min_speed = Some(200000)
    /\ speeds_kmh = <<500000, 2000000, 1500000>>
    /\ timestamps = SubSeq(Stamps(7), 3, 5)
    /\ bearings = <<Some(30), Some(40), Some(50)>>

\* C18: every entry of the result of calculate_bearing_accuracy that is not None
\* lies between 0 and 180 degrees.
C18_DifferenceInRange ==
    pc = "analysed" =>
        \A k \in 1..Len(Val(bearing_accuracy)) :
            Val(bearing_accuracy)[k] # None =>
                /\ Val(Val(bearing_accuracy)[k]) >= 0
                /\ Val(Val(bearing_accuracy)[k]) <= 1800

\* coordinate i or coordinate i - 1 is missing, for entry k of the result
FixMissing(k) == coordinates[k + 1] = None \/ coordinates[k] = None

\* C19 as claimed: the entry for index i is None exactly when coordinate i or
\* coordinate i - 1 is missing or the reported bearing at i is unset or zero, and
\* a number in every other case.
C19_UnavailableIffUnsetOrZero ==
    pc = "analysed" =>
        \A k \in 1..Len(Val(bearing_accuracy)) :
            (Val(bearing_accuracy)[k] = None) <=>
                \/ FixMissing(k)
                \/ bearings[k + 1] = None
                \/ bearings[k + 1] = Some(0)

\* C19 as amended: the entry for index i is None exactly when coordinate i or
\* coordinate i - 1 is missing or the reported bearing at i is unset or not
\* greater than 0, and a number in every other case; the result has one entry for
\* every index from 1 on when both lists have two elements or more.
C19_UnavailableIffNotPositive ==
    pc = "analysed" =>
        /\ Len(Val(bearing_accuracy)) =
               IF Len(coordinates) < 2 THEN 0 ELSE Len(coordinates) - 1
        /\ \A k \in 1..Len(Val(bearing_accuracy)) :
               (Val(bearing_accuracy)[k] = None) <=>
                   \/ FixMissing(k)
                   \/ bearings[k + 1] = None
                   \/ Val(bearings[k + 1]) <= 0

\* with three fixes, the comparison at a reported bearing of -5 degrees is None
\* and the comparison at a reported bearing of 90 degrees is a number
C19_Witness ==
    /\ pc = "analysed"
    /\ Len(coordinates) = 3 /\ \A i \in 1..3 : coordinates[i] # None
    /\ bearings[2] = Some(0 - 50) /\ bearings[3] = Some(900)
    /\ Val(bearing_accuracy)[1] = None
    /\ Val(bearing_accuracy)[2] # None

-----------------------------------------------------------------------------
(* Properties of the GGA branches                                          *)

\* C20: in each of the three parsers, a GGA sentence whose fix quality is empty
\* or not greater than 0 leaves the latitude, the longitude and the altitude of
\* the FixState as they are.
C20_NoFixNoUpdate ==
    [][(/\ pc = "sentence"
        /\ Head(nmea_matches).type = "GGA"
        /\ Len(Head(nmea_matches).parts) >= 6
        /\ LET quality == Head(nmea_matches).parts[6]
           IN  quality = Empty \/ (IsInt(quality) /\ quality.v <= 0))
       => /\ current_lat' = current_lat
          /\ current_lon' = current_lon
          /\ current_alt' = current_alt]_vars

-----------------------------------------------------------------------------
(* Sentence decoding                                                       *)

\* the sentence the next iteration of the sentence loop handles
Current == Head(nmea_matches)

\* a field that is absent, or a number
Numeric(f) == f = Empty \/ IsFloat(f)

\* C21: a VTG sentence whose km/h or knots field is present yields a speed: the
\* km/h field when it is present and not zero, and otherwise knots x 1.852; in
\* speed mode a speed that has been set makes a candidate, which is recorded with
\* that speed or dropped as a duplicate.
C21_VtgSpeed ==
    [][(mode = "speed" /\ pc = "sentence" /\ Current.type = "VTG"
        /\ Numeric(Current.parts[7]) /\ Numeric(Current.parts[5])
        /\ (Current.parts[7] # Empty \/ Current.parts[5] # Empty))
       => LET kmh == Current.parts[7]
              knots == Current.parts[5]
              speed == IF kmh # Empty /\ kmh.v # 0 THEN kmh.v * 100 ELSE knots.v * 1852
          IN  /\ outcome' \in {"recorded", "dropped"}
              /\ outcome' = "recorded" => Last(speeds_kmh') = speed]_vars

\* a GSV sentence that is not the first message of its group
LaterGsv(s) == s.type = "GSV" /\ ~(IsInt(s.parts[2]) /\ s.parts[2].v = 1)

\* C22: a GSV sentence whose message index is not 1 leaves the satellites-in-view
\* count as it was (or cleared by the record step), and a record made at that
\* sentence carries the count known before it, never the sentence's own.
C22_OnlyFirstGsvCounts ==
    [][(mode = "satellites" /\ pc = "sentence" /\ LaterGsv(Current))
       => /\ current_sats_view' \in {current_sats_view, None}
          /\ outcome' = "recorded"
             => Last(satellites_in_view') = LastKnown(current_sats_view, satellites_in_view)]_vars

\* a record made at a GSV sentence with index 2 and 12 satellites carries the 11
\* satellites of the index-1 sentence before it
C22_Witness ==
    /\ mode = "satellites" /\ nmea_sentence # None /\ LaterGsv(Val(nmea_sentence))
    /\ Val(nmea_sentence).parts[3].v = 12
    /\ outcome = "recorded"
    /\ Last(satellites_in_view) = 11

\* an RMC sentence whose status field is not A
VoidRmc(s) == s.type = "RMC" /\ s.parts[2] # Txt("A")

\* C23: an RMC sentence whose status is not A leaves the speed and the course
\* (coordinate parser) or bearing (speed parser) of FixState unchanged.
C23_VoidRmcIgnored ==
    [][(pc = "sentence" /\ VoidRmc(Current))
       => UNCHANGED <<current_speed, current_course, current_bearing>>]_vars

\* a void RMC sentence (20.00 kn, course 45.0) has been handled while the 10.00 kn
\* and course 90.0 of an earlier valid RMC sentence were stored
C23_Witness ==
    /\ mode = "coordinates" /\ nmea_sentence # None /\ VoidRmc(Val(nmea_sentence))
    /\ Val(nmea_sentence).parts[7].v = 2000
    /\ current_speed = Some(1000 * 1852)
    /\ current_course = Some(900)

\* a GGA sentence of the coordinate parser with a fix and four numeric, filled
\* coordinate fields
DecodableGga(s) ==
    /\ s.type = "GGA" /\ Len(s.parts) + 1 >= 10
    /\ IsInt(s.parts[6]) /\ s.parts[6].v > 0
    /\ s.parts[2] # Empty /\ IsFloat(s.parts[2]) /\ s.parts[3] # Empty
    /\ s.parts[4] # Empty /\ IsFloat(s.parts[4]) /\ s.parts[5] # Empty

\* floor(v / 100) + (v mod 100) / 60 for v in 1e-4 minutes, in 1/600000 degree,
\* negated in the named hemisphere
DegreesOf(value, dir, negative) ==
    LET degrees == value \div (100 * 10000)
        minutes == value % (100 * 10000)
        decimal == degrees * 600000 + minutes * (600000 \div (60 * 10000))
    IN  IF dir = Txt(negative) THEN 0 - decimal ELSE decimal

\* C24: the latitude and longitude stored from a GGA sentence are
\* floor(v/100) + (v mod 100)/60 of the DDMM.MMMM fields, negated exactly for the
\* hemispheres S and W.
C24_DecimalDegrees ==
    [][(mode = "coordinates" /\ pc = "sentence" /\ DecodableGga(Current))
       => /\ current_lat' = Some(DegreesOf(Current.parts[2].v, Current.parts[3], "S"))
          /\ current_lon' = Some(DegreesOf(Current.parts[4].v, Current.parts[5], "W"))]_vars

\* 3351.2340,S,15112.3450,W has been decoded to -(33 + 51.234/60) and
\* -(151 + 12.345/60) degrees
C24_Witness ==
    /\ mode = "coordinates" /\ nmea_sentence # None /\ DecodableGga(Val(nmea_sentence))
    /\ Val(nmea_sentence).parts[3] = Txt("S") /\ Val(nmea_sentence).parts[5] = Txt("W")
    /\ current_lat = Some(0 - (33 * 600000 + 512340))
    /\ current_lon = Some(0 - (151 * 600000 + 123450))

-----------------------------------------------------------------------------
(* Tracks and FixState                                                     *)

\* C25: every Track of the list the coordinate parser builds and returns holds
\* at least one Sample, whichever stream it belongs to.
C25_NoEmptyTrack == \A i \in 1..Len(all_tracks) : all_tracks[i] # <<>>

\* the call has returned one Track although the primary track was closed twice:
\* at a gap whose line gave no Sample, and again, empty, at the end of the input
C25_Witness ==
    /\ mode = "coordinates" /\ pc = "done" /\ ~include_raw
    /\ Len(all_tracks) = 1
    /\ GapExceeded(log_timestamp, last_valid_timestamp)

\* FixState of the coordinate parser
FixState == <<current_lat, current_lon, current_alt, current_speed, current_course,
              current_date>>

\* C26: in the coordinate parser the sentences of a line whose timestamp could
\* not be resolved leave FixState (latitude, longitude, altitude, speed, course,
\* current date) unchanged.
C26_UnstampedLineIgnored ==
    [][(mode = "coordinates" /\ pc = "sentence" /\ log_timestamp = None)
       => UNCHANGED FixState]_vars

\* C27: after a GGA sentence of the coordinate parser the stored latitude and
\* longitude are both the sentence's or both what they were.
C27_LatLonTogether ==
    [][(mode = "coordinates" /\ pc = "sentence" /\ Current.type = "GGA")
       => \/ UNCHANGED <<current_lat, current_lon>>
          \/ /\ current_lat' = Some(DegreesOf(Current.parts[2].v, Current.parts[3], "S"))
             /\ current_lon' = Some(DegreesOf(Current.parts[4].v, Current.parts[5], "W"))]_vars

\* C28: when a Sample has been recorded, the speed and the bearing (course) of
\* FixState are cleared, in the speed parser and in the coordinate parser.
C28_ClearedAfterRecord ==
    [][(mode \in {"speed", "coordinates"} /\ outcome' = "recorded")
       => /\ current_speed' = None
          /\ current_bearing' = None
          /\ current_course' = None]_vars

\* the pending fields of the speed parser and of the satellite parser
Pending == IF mode = "speed" THEN <<current_speed, current_bearing>>
           ELSE <<current_sats_view, current_sats_use>>

\* C29: a candidate that is dropped as a duplicate leaves the pending speed and
\* bearing (speed parser) or satellite counts (satellite parser) in FixState;
\* they are cleared only when a Sample is recorded.
C29_DropKeepsPending ==
    [][(mode \in {"speed", "satellites"} /\ outcome' = "dropped")
       => Pending' # <<None, None>>]_vars

\* C30: an RMC sentence with a valid DDMMYY date makes 20YY-MM-DD the current
\* date, in the coordinate parser and in the speed parser, and leaves the
\* timestamp of its own line as it was resolved.
C30_RmcDateAdvances ==
    [][(mode \in {"coordinates", "speed"} /\ pc = "sentence" /\ Current.type = "RMC"
        /\ rmc_date(Current.parts[9]) # None)
       => /\ current_date' = Val(rmc_date(Current.parts[9]))
          /\ log_timestamp' = log_timestamp]_vars

-----------------------------------------------------------------------------
(* Timestamp grammars                                                      *)

\* Lines in every timestamp grammar, with fields that form a date-time and
\* fields that do not (30 February, month 13, hour 25), and an RMC date
StampLines ==
    { Line(FALSE, Full(2026, 1, 13, 10, 0, 0, 0), <<GGA_A>>),
      Line(FALSE, Full(2025, 6, 1, 10, 0, 2, 0), <<GGA_B>>),
      Line(FALSE, Full(2024, 2, 29, 10, 0, 0, 0), <<GGA_A>>),
      Line(FALSE, Full(2026, 13, 1, 10, 0, 0, 0), <<GGA_B>>),
      Line(FALSE, Full(2025, 6, 1, 25, 0, 0, 0), <<GGA_A>>),
      Line(FALSE, MonthDay(1, 14, 10, 0, 0, 0), <<GGA_A>>),
      Line(FALSE, MonthDay(2, 30, 10, 0, 2, 0), <<GGA_B>>),
      Line(FALSE, Bare(10, 0, 0, 0), <<GGA_A>>),
      Line(FALSE, Bare(25, 0, 0, 0), <<GGA_B>>),
      Line(FALSE, Bare(10, 0, 2, 0), <<RMC_14>>),
      Line(FALSE, NoStamp, <<GGA_B>>) }

InitStamps == Start({"coordinates"}, Todays, {<<>>}) /\ run = "single"

ReadStampLine ==
    /\ script = <<>>
    /\ \E l \in StampLines : CoordLine(l)
    /\ UNCHANGED script

NextStamps ==
    \/ ReadStampLine
    \/ CoordSentence
    \/ CoordFinish

SpecStamps == InitStamps /\ [][NextStamps]_vars

\* the date the i-th grammar reads from the text: month and day in the year of
\* the current date, the date written in full, or the current date
GrammarDate(i, stamp, cur_date) ==
    CASE i = 1 -> Date(cur_date.year, stamp.month, stamp.day)
      [] i = 2 -> Date(stamp.year, stamp.month, stamp.day)
      [] i = 3 -> cur_date

\* the i-th grammar matches and its fields form a valid date-time
GrammarSucceeds(i, stamp, cur_date) ==
    /\ PatternMatches(i, stamp)
    /\ LET d == GrammarDate(i, stamp, cur_date) IN ValidDate(d.year, d.month, d.day)
    /\ ValidTime(stamp.hour, stamp.minute, stamp.second)

\* the timestamp of the first grammar, in the order (a), (b), (c), that succeeds
FirstGrammar(stamp, cur_date) ==
    LET ok == {i \in 1..3 : GrammarSucceeds(i, stamp, cur_date)}
        first == CHOOSE i \in ok : \A j \in ok : i <= j
    IN  IF ok = {} THEN None
        ELSE Some(Datetime(GrammarDate(first, stamp, cur_date),
                           TimeOfDay(stamp.hour, stamp.minute, stamp.second, stamp.millis)))

\* the line loop has just read a line and resolved its timestamp
LineResolved == mode = "coordinates" /\ nlines' = nlines + 1 /\ pc' = "sentence"

\* C31: the grammars MM-DD, YYYY-MM-DD, HH:MM:SS.mmm are tried in this order; the
\* first that matches and whose fields form a valid date-time gives the line's
\* timestamp, one that matches but does not parse falls through to the next, and
\* the line has no timestamp when none succeeds.
C31_FirstGrammarWins ==
    [][LineResolved => log_timestamp' = FirstGrammar(Val(line').stamp, current_date)]_vars

\* a line written as 02-30 10:00:02.000 has fallen through to the third grammar
C31_Witness ==
    /\ mode = "coordinates" /\ pc = "sentence" /\ line # None
    /\ Val(line).stamp.form = "mmdd"
    /\ ~GrammarSucceeds(1, Val(line).stamp, current_date)
    /\ log_timestamp = Some(Datetime(current_date, TimeOfDay(10, 0, 2, 0)))

\* C32: a line with a full YYYY-MM-DD HH:MM:SS.mmm timestamp resolves to that
\* year, month, day and time, whatever the current date.
C32_FullStampExact ==
    [][(LineResolved /\ Val(line').stamp.form = "full"
        /\ GrammarSucceeds(2, Val(line').stamp, current_date))
       => log_timestamp' = Some(Datetime(GrammarDate(2, Val(line').stamp, current_date),
                                         TimeOfDay(Val(line').stamp.hour, Val(line').stamp.minute,
                                                   Val(line').stamp.second, Val(line').stamp.millis)))]_vars

-----------------------------------------------------------------------------
(* Extraction, files, malformed sentences                                  *)

\* a line has just been read and its sentences extracted
LineExtracted == nlines' = nlines + 1 /\ pc' # "line"

\* C33: in every Android-log parser the extractor yields each sentence of a line
\* as a candidate of its own, ending at the next '$' or at the end of the line.
C33_EverySentenceExtracted ==
    [][LineExtracted => nmea_matches' = Val(line').sents]_vars

\* number of log files of the folder
MaxFiles == 2

\* mutant: the local is set up again for every file
CarriedOver_reset(v) == <<>>

\* The value a local of lines 48-55, assigned once before the file loop, has when
\* the file loop opens the next file
CarriedOver(v) == v

\* Line 86: the line loop of a file is exhausted and the file loop opens the next
NextFile ==
    /\ mode = "coordinates" /\ pc = "line" /\ log_file < MaxFiles
    /\ log_file' = log_file + 1
    /\ current_lat' = CarriedOver(current_lat)
    /\ current_lon' = CarriedOver(current_lon)
    /\ current_alt' = CarriedOver(current_alt)
    /\ current_speed' = CarriedOver(current_speed)
    /\ current_course' = CarriedOver(current_course)
    /\ last_valid_timestamp' = CarriedOver(last_valid_timestamp)
    /\ last_raw_timestamp' = CarriedOver(last_raw_timestamp)
    /\ current_track' = CarriedOver(current_track)
    /\ current_raw_track' = CarriedOver(current_raw_track)
    /\ UNCHANGED <<ctlVars, analysisVars, rerunVars, pc, current_date, all_tracks, accepted, nlines,
                   script, stamp_form, clock, line, nmea_matches, nmea_sentence,
                   is_raw_message, log_timestamp, outcome, listVars, speedVars, satVars>>

InitFiles == Start({"coordinates"}, Todays, {<<>>}) /\ run = "single"

\* the lines of the files
FileLines ==
    { Line(FALSE, Bare(10, 0, 0, 0), <<GGA_A>>),
      Line(FALSE, Bare(10, 0, 2, 0), <<GGA_A>>),
      Line(FALSE, Bare(10, 11, 0, 0), <<GGA_A>>),
      Line(FALSE, Bare(10, 0, 0, 0), <<GGA_B>>),
      Line(FALSE, Bare(10, 11, 0, 0), <<GGA_BadLon>>),
      Line(FALSE, Bare(10, 0, 0, 0), <<RMC_14>>),
      Line(TRUE, Bare(10, 0, 2, 0), <<GGA_B>>),
      Line(TRUE, Bare(10, 11, 0, 0), <<GGA_A>>) }

ReadFileLine ==
    /\ script = <<>>
    /\ \E l \in FileLines : CoordLine(l)
    /\ UNCHANGED script

NextFiles ==
    \/ ReadFileLine
    \/ CoordSentence
    \/ CoordFinish
    \/ NextFile

SpecFiles == InitFiles /\ [][NextFiles]_vars

\* C34: the end of a file changes neither FixState nor a cursor nor a Track, so
\* the files read in order give the Tracks of their lines read as one file.
C34_FileBoundaryInvisible ==
    [][log_file' # log_file => UNCHANGED <<FixState, Cursors, accepted>>]_vars

\* the call has returned a Track that holds a Sample of the first file and a
\* Sample of the second
C34_Witness ==
    /\ pc = "done"
    /\ \E i \in 1..Len(all_tracks) :
           \E j, k \in 1..Len(all_tracks[i]) :
               all_tracks[i][j].file = 1 /\ all_tracks[i][k].file = 2

\* a GGA sentence with too few fields or with a field that is filled but is no
\* number where the parser converts one
Malformed(s) ==
    /\ s.type = "GGA"
    /\ \/ Len(s.parts) + 1 < 10
       \/ \E i \in {2, 4, 6, 9} : s.parts[i] # Empty /\ ~IsFloat(s.parts[i])

\* C35: a malformed sentence raises nothing out of the parser: the sentence loop
\* goes on with the remaining sentences of the line, and with the next line when
\* there is none.
C35_MalformedAbsorbed ==
    [][(pc = "sentence" /\ Malformed(Current))
       => /\ nmea_matches' = Tail(nmea_matches)
          /\ pc' = IF Tail(nmea_matches) = <<>> THEN "line" ELSE "sentence"]_vars

\* the speed parser has recorded the speed of a VTG sentence that follows two
\* malformed GGA sentences on its line
C35_Witness ==
    /\ mode = "speed" /\ outcome = "recorded"
    /\ nmea_sentence # None /\ Val(nmea_sentence).type = "VTG"
    /\ Len(Val(line).sents) = 3
    /\ Malformed(Val(line).sents[1]) /\ Malformed(Val(line).sents[2])

-----------------------------------------------------------------------------
(* The lists of the speed and satellite parsers                            *)

\* the timestamp of the current line as it was before validate_and_fix_timestamp:
\* the resolved one, or datetime.now()
Unrepaired ==
    LET ts == ResolveTimestamp(Val(line).stamp, current_date)
    IN  IF ts = None THEN clock ELSE Val(ts)

\* the timestamp of the current line was out of order and has been replaced
Repaired == log_timestamp # None /\ Val(log_timestamp) # Unrepaired

\* C36: in the speed parser the first speed of a line whose out-of-order timestamp
\* has been repaired is recorded, at the repaired timestamp, and never dropped as
\* a duplicate.
C36_RepairedIsRecorded ==
    [][(mode = "speed" /\ pc = "sentence" /\ Repaired
        /\ outcome = "none" /\ outcome' # "none")
       => /\ outcome' = "recorded"
          /\ Last(timestamps') = Val(log_timestamp)]_vars

\* C37: the lists of the satellite parser are index-aligned: timestamps,
\* satellites_in_view, satellites_in_use and coordinates have the same length.
C37_SatelliteListsAligned ==
    mode = "satellites" =>
        /\ Len(satellites_in_view) = Len(timestamps)
        /\ Len(satellites_in_use) = Len(timestamps)
        /\ Len(coordinates) = Len(timestamps)

\* C38: the four lists of the speed parser have equal length; a record made while
\* no position is known has the coordinate entry None, and a record made while no
\* bearing is known, at a VTG sentence without a course, has the bearing 0.0.
C38_SpeedListsAligned ==
    [][mode = "speed"
       => /\ Len(speeds_kmh') = Len(timestamps')
          /\ Len(coordinates') = Len(timestamps')
          /\ Len(bearings') = Len(timestamps')
          /\ (outcome' = "recorded" /\ (current_lat' = None \/ current_lon' = None))
                => Last(coordinates') = None
          /\ (outcome' = "recorded" /\ current_bearing = None
              /\ Current.type = "VTG" /\ Current.parts[1] = Empty)
                => Last(bearings') = 0]_vars

\* a VTG sentence without a course has been recorded before any fix: the four
\* lists have one entry each, the coordinate entry None, the bearing 0.0
C38_Witness ==
    /\ mode = "speed" /\ outcome = "recorded"
    /\ nmea_sentence # None /\ Val(nmea_sentence).type = "VTG"
    /\ Val(nmea_sentence).parts[1] = Empty
    /\ Len(timestamps) = 1 /\ Len(speeds_kmh) = 1
    /\ coordinates = <<None>> /\ bearings = <<0>>

-----------------------------------------------------------------------------
(* trim_low_speed_points, applied twice                                    *)

\* C39: trim_low_speed_points is idempotent: applied with the same threshold to
\* its own result, it returns that result unchanged.
C39_TrimIdempotent ==
    [][(pc = "trimmed" /\ pc' = "retrimmed")
       => UNCHANGED <<timestamps, speeds_kmh, coordinates, bearings>>]_vars

\* the speeds [5, 20, 0, 15], left of [0, 5, 20, 0, 15, 0, 0] by the threshold 2,
\* have been trimmed again
C39_Witness ==
    /\ pc = "retrimmed"
    /\ min_speed = Some(200000)
    /\ speeds_kmh = <<500000, 2000000, 0, 1500000>>
    /\ timestamps = SubSeq(Stamps(7), 2, 5)

====
